---- MODULE Spec2Model ----
(***************************************************************************)
(* A model of the Neotron Pico BIOS video subsystem (src/src/vga/mod.rs)   *)
(* and of the video entry points of the BIOS API (src/src/main.rs).        *)
(*                                                                         *)
(* Core 0 runs the API calls and the DMA interrupt handler irq(); core 1   *)
(* runs the Render Loop core1_main/render_scanline.  The two DMA channels  *)
(* are hardware: they complete a transfer at any time and raise their bit  *)
(* in the DMA interrupt status register ints0.                             *)
(*                                                                         *)
(* Not modelled: RENDER_TIME and the TOTAL_LINES static of irq(), two      *)
(* write-only diagnostic counters (the first fed by the SysTick timer),    *)
(* which no other code of the repository reads for control.                *)
(***************************************************************************)
EXTENDS Integers, Sequences, FiniteSets, TLC

\* ------------------------------------------------------------------------
\* Bounds of the model
\* ------------------------------------------------------------------------

\* CLASHED_COUNT is a u32 that only grows: the handler is explored while
\* the count is below this bound.
MaxClashes == 2

\* After a mode change CURRENT_TIMING_LINE can leave the frame and run up
\* to the u16 limit: it is explored up to this many lines past the longest
\* frame.
MaxOverrun == 3

\* video_wait_for_line is watched for this many pixel interrupts beyond one
\* frame.
MaxExtraWait == 2

\* set_video_mode races with the Render Loop during the first MaxRaceLine
\* playout lines.
MaxRaceLine == 3

\* The text console is explored for this many calls.
MaxConsoleOps == 4

\* Text is rendered for the first MaxRenderLine playout lines.
MaxRenderLine == 8

\* Lines the timing channel and the pixel channel drift apart.
MaxDrift == 2

\* set_video_mode is called late in the frame, during playout line
\* LateModeLine, and the frame is followed for one more line.
LateModeLine == 420

\* ------------------------------------------------------------------------
\* Program constants
\* ------------------------------------------------------------------------

TIMING_DMA_CHAN == 0

PIXEL_DMA_CHAN == 1

MAX_NUM_PIXELS_PER_LINE == 640

MAX_NUM_LINES == 480

MAX_TEXT_COLS == MAX_NUM_PIXELS_PER_LINE \div 8

MAX_TEXT_ROWS == MAX_NUM_LINES \div 8

\* The two scan-line buffers, PIXEL_DATA_BUFFER_EVEN and PIXEL_DATA_BUFFER_ODD.
Buffers == {"EVEN", "ODD"}

OtherBuffer(b) == IF b = "EVEN" THEN "ODD" ELSE "EVEN"

\* ------------------------------------------------------------------------
\* neotron_common_bios::video::Mode (a dependency, not part of src/)
\* ------------------------------------------------------------------------

Timings == {"T640x480", "T640x400", "T800x600"}

Formats == {"Text8x16", "Text8x8", "Chunky8"}

Mode(t, f, h2, v2) == [timing |-> t, format |-> f, horiz_2x |-> h2, vert_2x |-> v2]

IsTextFormat(f) == f \in {"Text8x16", "Text8x8"}

horizontal_pixels(m) ==
    LET full == IF m.timing = "T800x600" THEN 800 ELSE 640
    IN  IF m.horiz_2x THEN full \div 2 ELSE full

vertical_lines(m) ==
    LET full == CASE m.timing = "T640x480" -> 480
                  [] m.timing = "T640x400" -> 400
                  [] OTHER -> 600
    IN  IF m.vert_2x THEN full \div 2 ELSE full

\* Option<u16>: the value, or None for a format that is not text.
None == 0 - 1

text_width(m) == IF IsTextFormat(m.format) THEN horizontal_pixels(m) \div 8 ELSE None

\* Mutant: the row count is the line count, not divided by the font height.
text_height_Lines(m) == IF IsTextFormat(m.format) THEN vertical_lines(m) ELSE None

text_height(m) ==
    CASE m.format = "Text8x16" -> vertical_lines(m) \div 16
      [] m.format = "Text8x8" -> vertical_lines(m) \div 8
      [] OTHER -> None

unwrap_or(opt, dflt) == IF opt = None THEN dflt ELSE opt

\* ------------------------------------------------------------------------
\* Timing words (ScanlineTimingBuffer, TimingBuffer)
\* ------------------------------------------------------------------------

\* A u32 is held as its two 16-bit halves << high, low >>.
W16 == 2 ^ 16

U32(v) == << (v \div W16) % W16, v % W16 >>

RECURSIVE BitOr(_, _)
BitOr(a, b) ==
    IF a = 0 THEN b
    ELSE IF b = 0 THEN a
    ELSE (IF (a % 2 = 1) \/ (b % 2 = 1) THEN 1 ELSE 0) + 2 * BitOr(a \div 2, b \div 2)

\* a | b on u32
Or32(a, b) == << BitOr(a[1], b[1]), BitOr(a[2], b[2]) >>

\* a << n on u32, for n in 0..16: the bits shifted past bit 31 are lost.
Shl32(a, n) ==
    LET keep == 2 ^ (16 - n)
    IN  << ((a[1] % keep) * (2 ^ n)) + (a[2] \div keep), (a[2] % keep) * (2 ^ n) >>

\* SyncPolarity::enabled / SyncPolarity::disabled
enabled(pol) == pol = "Positive"

disabled(pol) == pol = "Negative"

\* Mutant: the period field is shifted by four bits, not two.
make_timing_WideShift(period, hsync, vsync, raise_irq) ==
    LET command == IF raise_irq THEN 49152 ELSE 41026
        v0 == U32(0)
        v1 == IF hsync THEN Or32(v0, Shl32(U32(1), 0)) ELSE v0
        v2 == IF vsync THEN Or32(v1, Shl32(U32(1), 1)) ELSE v1
        v3 == Or32(v2, Shl32(U32(period - 6), 4))
    IN  Or32(v3, Shl32(U32(command), 16))

make_timing(period, hsync, vsync, raise_irq) ==
    LET command == IF raise_irq THEN 49152 ELSE 41026   \* 0xc000, 0xa042
        v0 == U32(0)
        v1 == IF hsync THEN Or32(v0, Shl32(U32(1), 0)) ELSE v0
        v2 == IF vsync THEN Or32(v1, Shl32(U32(1), 1)) ELSE v1
        v3 == Or32(v2, Shl32(U32(period - 6), 2))
    IN  Or32(v3, Shl32(U32(command), 16))

\* Mutant: the back porch is shortened, the visible period not lengthened.
new_v_visible_NoCompensation(hsync, vsync, t) ==
    << make_timing(t[1] * 10, disabled(hsync), disabled(vsync), FALSE),
       make_timing(t[2] * 10, enabled(hsync), disabled(vsync), FALSE),
       make_timing((t[3] * 10) - 5, disabled(hsync), disabled(vsync), FALSE),
       make_timing(t[4] * 10, disabled(hsync), disabled(vsync), TRUE) >>

new_v_visible(hsync, vsync, t) ==
    << make_timing(t[1] * 10, disabled(hsync), disabled(vsync), FALSE),
       make_timing(t[2] * 10, enabled(hsync), disabled(vsync), FALSE),
       make_timing((t[3] * 10) - 5, disabled(hsync), disabled(vsync), FALSE),
       make_timing((t[4] * 10) + 5, disabled(hsync), disabled(vsync), TRUE) >>

\* Mutant: the porch lines raise the IRQ in their fourth word too.
new_v_porch_RaisesIrq(hsync, vsync, t) ==
    << make_timing(t[1] * 10, disabled(hsync), disabled(vsync), FALSE),
       make_timing(t[2] * 10, enabled(hsync), disabled(vsync), FALSE),
       make_timing(t[3] * 10, disabled(hsync), disabled(vsync), FALSE),
       make_timing(t[4] * 10, disabled(hsync), disabled(vsync), TRUE) >>

new_v_porch(hsync, vsync, t) ==
    << make_timing(t[1] * 10, disabled(hsync), disabled(vsync), FALSE),
       make_timing(t[2] * 10, enabled(hsync), disabled(vsync), FALSE),
       make_timing(t[3] * 10, disabled(hsync), disabled(vsync), FALSE),
       make_timing(t[4] * 10, disabled(hsync), disabled(vsync), FALSE) >>

\* Mutant: the sync lines leave V-sync at its inactive level.
new_v_pulse_NoVsync(hsync, vsync, t) ==
    << make_timing(t[1] * 10, disabled(hsync), disabled(vsync), FALSE),
       make_timing(t[2] * 10, enabled(hsync), disabled(vsync), FALSE),
       make_timing(t[3] * 10, disabled(hsync), disabled(vsync), FALSE),
       make_timing(t[4] * 10, disabled(hsync), disabled(vsync), FALSE) >>

new_v_pulse(hsync, vsync, t) ==
    << make_timing(t[1] * 10, disabled(hsync), enabled(vsync), FALSE),
       make_timing(t[2] * 10, enabled(hsync), enabled(vsync), FALSE),
       make_timing(t[3] * 10, disabled(hsync), enabled(vsync), FALSE),
       make_timing(t[4] * 10, disabled(hsync), enabled(vsync), FALSE) >>

make_640x400 ==
    [ visible_line          |-> new_v_visible("Negative", "Positive", <<16, 96, 48, 640>>),
      vblank_porch_buffer   |-> new_v_porch("Negative", "Positive", <<16, 96, 48, 640>>),
      vblank_sync_buffer    |-> new_v_pulse("Negative", "Positive", <<16, 96, 48, 640>>),
      visible_lines_ends_at |-> 399,
      front_porch_end_at    |-> 399 + 12,
      sync_pulse_ends_at    |-> 399 + 12 + 2,
      back_porch_ends_at    |-> 399 + 12 + 2 + 35 ]

make_640x480 ==
    [ visible_line          |-> new_v_visible("Negative", "Negative", <<16, 96, 48, 640>>),
      vblank_porch_buffer   |-> new_v_porch("Negative", "Negative", <<16, 96, 48, 640>>),
      vblank_sync_buffer    |-> new_v_pulse("Negative", "Negative", <<16, 96, 48, 640>>),
      visible_lines_ends_at |-> 479,
      front_porch_end_at    |-> 479 + 10,
      sync_pulse_ends_at    |-> 479 + 10 + 2,
      back_porch_ends_at    |-> 479 + 10 + 2 + 33 ]

\* Mutant: the two match arms build each other's TimingBuffer.
TimingBufferFor_Swapped(t) == IF t = "T640x400" THEN make_640x480 ELSE make_640x400

\* The TimingBuffer set_video_mode builds for a timing it accepts.
TimingBufferFor(t) == IF t = "T640x400" THEN make_640x400 ELSE make_640x480

\* ------------------------------------------------------------------------
\* Colours (RGBColour, RGBPair, VIDEO_PALETTE, TextColourLookup)
\* ------------------------------------------------------------------------

\* RGBColour::new4: a 12-bit colour, blue in bits 11..8, green in 7..4, red in 3..0.
new4(red, green, blue) ==
    BitOr(BitOr((blue % 16) * 256, (green % 16) * 16), red % 16)

\* The sixteen entries of VIDEO_PALETTE the text colours use (index 0..15).
VIDEO_PALETTE ==
    << new4(0, 0, 0),
       new4(8, 0, 0),
       new4(0, 8, 0),
       new4(8, 8, 0),
       new4(0, 0, 8),
       new4(8, 0, 8),
       new4(0, 8, 8),
       new4(12, 12, 0),
       new4(8, 8, 8),
       new4(15, 0, 0),
       new4(0, 15, 0),
       new4(15, 15, 0),
       new4(0, 0, 15),
       new4(15, 0, 15),
       new4(0, 15, 15),
       new4(15, 15, 15) >>

\* palette[i], counted from 0 as the code counts
PaletteColour(palette, i) == palette[i + 1]

\* RGBPair::new: (second << 16) | first, the first pixel in the low 16 bits
\* and the second in the high 16 bits.  An RGBColour has 12 bits, so the
\* pair is below 2^28 and is held as one number.
RGBPair_new(first, second) == BitOr(second * W16, first)

\* The two pixels of a pair.
FirstPixel(pair) == pair % W16

SecondPixel(pair) == pair \div W16

\* Attr::new: blink in bit 7, the foreground index in bits 6..3, the
\* background index in bits 2..0.
Attr_new(fg, bg, blink) == BitOr(BitOr(IF blink THEN 128 ELSE 0, (fg % 16) * 8), bg % 8)

\* (((attr.0 & 0x7F) as usize) << 2) | (pixels & 0x03) as usize
LookupIndex(attr, pixels) == BitOr((attr % 128) * 4, pixels % 4)

\* TextColourLookup::blank
TextColourLookup_blank == [i \in 0..511 |-> 0]

\* The turns of the three nested loops of TextColourLookup::init, numbered
\* in the order they run: fg in 0..16 outermost, bg in 0..8, pixels in
\* 0..=3 innermost.
InitTurns == 0 .. (16 * 8 * 4 - 1)

\* let index = ... of turn k
InitIndex(k) ==
    LET fg == k \div 32
        bg == (k \div 4) % 8
        pixels == k % 4
    IN  LookupIndex(Attr_new(fg, bg, FALSE), pixels)

\* Mutant: the two pixels of the pair test each other's bit.
InitPair_BitsSwapped(palette, k) ==
    LET fg == k \div 32
        bg == (k \div 4) % 8
        pixels == k % 4
        fg_colour == PaletteColour(palette, fg)
        bg_colour == PaletteColour(palette, bg)
    IN  RGBPair_new(IF pixels % 2 = 1 THEN fg_colour ELSE bg_colour,
                    IF (pixels \div 2) % 2 = 1 THEN fg_colour ELSE bg_colour)

\* let pair = RGBPair::new(...) of turn k
InitPair(palette, k) ==
    LET fg == k \div 32
        bg == (k \div 4) % 8
        pixels == k % 4
        fg_colour == PaletteColour(palette, fg)
        bg_colour == PaletteColour(palette, bg)
    IN  RGBPair_new(IF (pixels \div 2) % 2 = 1 THEN fg_colour ELSE bg_colour,
                    IF pixels % 2 = 1 THEN fg_colour ELSE bg_colour)

\* The last of a non-empty set of turns.
LastTurn(turns) == CHOOSE k \in turns : \A j \in turns : j <= k

\* TextColourLookup::init: the table it leaves (an entry holds what the last
\* turn that stored to it stored), and (history) how many different entries
\* it stored to.
TextColourLookup_init(entries, palette) ==
    LET index == [k \in InitTurns |-> InitIndex(k)]
    IN  [ entries |-> [ i \in DOMAIN entries |->
                          LET turns == { k \in InitTurns : index[k] = i }
                          IN  IF turns = {} THEN entries[i]
                              ELSE InitPair(palette, LastTurn(turns)) ],
          written |-> Cardinality({ index[k] : k \in InitTurns }) ]

\* TextColourLookup::lookup
lookup(entries, attr, pixels) == entries[LookupIndex(attr, pixels)]

\* ------------------------------------------------------------------------
\* Glyphs and the text grid (Glyph, GlyphAttr, Font::convert_char)
\* ------------------------------------------------------------------------

\* GlyphAttr::new, GlyphAttr::glyph, GlyphAttr::attr: a cell is its glyph
\* and its attribute byte.
GlyphAttr_new(glyph, attr) == << glyph, attr >>

GlyphAttr_glyph(glyphattr) == glyphattr[1]

GlyphAttr_attr(glyphattr) == glyphattr[2]

\* GlyphAttr(0), the value GLYPH_ATTR_ARRAY is filled with.
GlyphAttr0 == GlyphAttr_new(0, 0)

\* The Code Page 850 glyph of the characters above U+007F that have one.
CP850 ==
    160 :> 255 @@ 161 :> 173 @@ 162 :> 189 @@ 163 :> 156 @@ 164 :> 207 @@
    165 :> 190 @@ 166 :> 221 @@ 167 :> 245 @@ 168 :> 249 @@ 169 :> 184 @@
    170 :> 166 @@ 171 :> 174 @@ 172 :> 170 @@ 173 :> 240 @@ 174 :> 169 @@
    175 :> 238 @@ 176 :> 248 @@ 177 :> 241 @@ 178 :> 253 @@ 179 :> 252 @@
    180 :> 239 @@ 181 :> 230 @@ 182 :> 244 @@ 183 :> 250 @@ 184 :> 247 @@
    185 :> 251 @@ 186 :> 167 @@ 187 :> 175 @@ 188 :> 172 @@ 189 :> 171 @@
    190 :> 243 @@ 191 :> 168 @@ 192 :> 183 @@ 193 :> 181 @@ 194 :> 182 @@
    195 :> 199 @@ 196 :> 142 @@ 197 :> 143 @@ 198 :> 146 @@ 199 :> 128 @@
    200 :> 212 @@ 201 :> 144 @@ 202 :> 210 @@ 203 :> 211 @@ 204 :> 222 @@
    205 :> 214 @@ 206 :> 215 @@ 207 :> 216 @@ 208 :> 209 @@ 209 :> 165 @@
    210 :> 227 @@ 211 :> 224 @@ 212 :> 226 @@ 213 :> 229 @@ 214 :> 153 @@
    215 :> 158 @@ 216 :> 157 @@ 217 :> 235 @@ 218 :> 233 @@ 219 :> 234 @@
    220 :> 154 @@ 221 :> 237 @@ 222 :> 232 @@ 223 :> 225 @@ 224 :> 133 @@
    225 :> 160 @@ 226 :> 131 @@ 227 :> 198 @@ 228 :> 132 @@ 229 :> 134 @@
    230 :> 145 @@ 231 :> 135 @@ 232 :> 138 @@ 233 :> 130 @@ 234 :> 136 @@
    235 :> 137 @@ 236 :> 141 @@ 237 :> 161 @@ 238 :> 140 @@ 239 :> 139 @@
    240 :> 208 @@ 241 :> 164 @@ 242 :> 149 @@ 243 :> 162 @@ 244 :> 147 @@
    245 :> 228 @@ 246 :> 148 @@ 247 :> 246 @@ 248 :> 155 @@ 249 :> 151 @@
    250 :> 163 @@ 251 :> 150 @@ 252 :> 129 @@ 253 :> 236 @@ 254 :> 231 @@
    255 :> 152 @@ 305 :> 213 @@ 402 :> 159 @@ 8215 :> 242 @@ 9472 :> 196 @@
    9474 :> 179 @@ 9484 :> 218 @@ 9488 :> 191 @@ 9492 :> 192 @@ 9496 :> 217 @@
    9500 :> 195 @@ 9508 :> 180 @@ 9516 :> 194 @@ 9524 :> 193 @@ 9532 :> 197 @@
    9552 :> 205 @@ 9553 :> 186 @@ 9556 :> 201 @@ 9559 :> 187 @@ 9562 :> 200 @@
    9565 :> 188 @@ 9568 :> 204 @@ 9571 :> 185 @@ 9574 :> 203 @@ 9577 :> 202 @@
    9580 :> 206 @@ 9600 :> 223 @@ 9604 :> 220 @@ 9608 :> 219 @@ 9617 :> 176 @@
    9618 :> 177 @@ 9619 :> 178 @@ 9632 :> 254

\* Font::convert_char: a character is its Unicode scalar value.
convert_char(input) ==
    IF input <= 127 THEN input
    ELSE IF input \in DOMAIN CP850 THEN CP850[input]
    ELSE None

\* Characters the code names.
NewLine == 10          \* '\n'

CarriageReturn == 13   \* '\r'

QuestionMark == 63     \* b'?'

Space == 32            \* b' '

\* The grid holds MAX_TEXT_ROWS * MAX_TEXT_COLS cells; GLYPH_ATTR_ARRAY
\* keeps those that differ from GlyphAttr(0).
GridCells == 0 .. (MAX_TEXT_ROWS * MAX_TEXT_COLS - 1)

EmptyGrid == [i \in {} |-> GlyphAttr0]

Cell(grid, offset) == IF offset \in DOMAIN grid THEN grid[offset] ELSE GlyphAttr0

\* buffer.add(offset).write_volatile(glyphattr)
GridWrite(grid, offset, glyphattr) ==
    LET dom == IF glyphattr = GlyphAttr0
               THEN DOMAIN grid \ {offset}
               ELSE DOMAIN grid \cup {offset}
    IN  [i \in dom |-> IF i = offset THEN glyphattr ELSE grid[i]]

\* ------------------------------------------------------------------------
\* TextConsole (pure part)
\* ------------------------------------------------------------------------

\* TextForegroundColour::WHITE, TextBackgroundColour::BLACK
WHITE == 15

BLACK == 0

\* TextConsole::new: no buffer, cursor at the origin, white on black.
TextConsole_new ==
    [ current_row |-> 0, current_col |-> 0, text_buffer |-> "null",
      attr |-> Attr_new(WHITE, BLACK, FALSE) ]

\* Mutant: an out-of-range value is clamped to the last row or column.
move_to_Clamped(con, row, col, num_rows, num_cols) ==
    [ con EXCEPT !.current_row = IF row < num_rows THEN row ELSE num_rows - 1,
                 !.current_col = IF col < num_cols THEN col ELSE num_cols - 1 ]

\* TextConsole::move_to
move_to(con, row, col, num_rows, num_cols) ==
    [ con EXCEPT !.current_row = IF row < num_rows THEN row ELSE @,
                 !.current_col = IF col < num_cols THEN col ELSE @ ]

\* Mutant: the offset is computed column-major.
write_at_ColumnMajor(grid, glyphattr, row, col, num_cols) ==
    GridWrite(grid, row + (num_cols * col), glyphattr)

\* TextConsole::write_at
write_at(grid, glyphattr, row, col, num_cols) ==
    LET offset == col + (num_cols * row)
    IN  GridWrite(grid, offset, glyphattr)

\* core::ptr::copy(buffer.add(num_cols), buffer, num_cols * (num_rows - 1))
ScrollUp(grid, num_cols, num_rows) ==
    LET count == num_cols * (num_rows - 1)
        moved == { i - num_cols : i \in { j \in DOMAIN grid : j >= num_cols /\ j - num_cols < count } }
        kept  == { i \in DOMAIN grid : i >= count }
    IN  [ i \in moved \cup kept |-> IF i < count THEN grid[i + num_cols] ELSE grid[i] ]

\* Mutant: the new last row keeps its cells.
WipeRow_Nothing(grid, row, num_cols) == grid

\* for blank_col in 0..num_cols: GlyphAttr::new(Glyph(b' '), Attr(0)) at (row, blank_col)
WipeRow(grid, row, num_cols) ==
    LET offsets == { blank_col + (num_cols * row) : blank_col \in 0 .. (num_cols - 1) }
    IN  [ i \in DOMAIN grid \cup offsets |->
              IF i \in offsets THEN GlyphAttr_new(Space, 0) ELSE grid[i] ]

\* Mutant: a new line keeps the column.
NewLineArm_KeepsColumn(st) == [st EXCEPT !.row = (@ + 1) % 256]

\* '\n' => { row += 1; col = 0; }
NewLineArm(st) == [st EXCEPT !.row = (@ + 1) % 256, !.col = 0]

\* '\r' => { col = 0; }
CarriageReturnArm(st) == [st EXCEPT !.col = 0]

\* _ => { ... self.write_at(glyphattr, buffer, row, col, num_cols); col += 1; }
GlyphArm(st, ch, at, num_cols) ==
    LET glyph == unwrap_or(convert_char(ch), QuestionMark)
        glyphattr == GlyphAttr_new(glyph, at)
    IN  [st EXCEPT !.grid = write_at(@, glyphattr, st.row, st.col, num_cols),
                   !.col = (@ + 1) % 256]

\* Mutant: the line ends one column later.
AtLineEnd_OnePast(col, num_cols) == col = (num_cols + 1) % 256

\* if col == (num_cols as u8)
AtLineEnd(col, num_cols) == col = num_cols % 256

\* if row == (num_rows as u8)
AtScreenEnd(row, num_rows) == row = num_rows % 256

\* One turn of the for loop of write_str, on the locals row and col (both
\* u8) and the grid.
WriteChar(st, ch, at, num_cols, num_rows) ==
    LET s1 == IF ch = NewLine THEN NewLineArm(st)
              ELSE IF ch = CarriageReturn THEN CarriageReturnArm(st)
              ELSE GlyphArm(st, ch, at, num_cols)
        s2 == IF AtLineEnd(s1.col, num_cols)
              THEN [s1 EXCEPT !.col = 0, !.row = (@ + 1) % 256]
              ELSE s1
    IN  IF AtScreenEnd(s2.row, num_rows)
        THEN [s2 EXCEPT !.row = (num_rows - 1) % 256,
                        !.grid = WipeRow(ScrollUp(@, num_cols, num_rows),
                                         (num_rows - 1) % 256, num_cols)]
        ELSE s2

\* for ch in s.chars()
RECURSIVE WriteChars(_, _, _, _, _)
WriteChars(st, s, at, num_cols, num_rows) ==
    IF s = << >> THEN st
    ELSE WriteChars(WriteChar(st, Head(s), at, num_cols, num_rows), Tail(s), at,
                    num_cols, num_rows)

\* write_str: the console and the grid it leaves.  Without a buffer it
\* does nothing.
write_str(con, grid, s, num_cols, num_rows) ==
    IF con.text_buffer = "null"
    THEN [console |-> con, grid |-> grid]
    ELSE LET st == WriteChars([row |-> con.current_row, col |-> con.current_col,
                               grid |-> grid], s, con.attr, num_cols, num_rows)
         IN  [ console |-> [con EXCEPT !.current_row = st.row, !.current_col = st.col],
               grid |-> st.grid ]

\* ------------------------------------------------------------------------
\* State
\* ------------------------------------------------------------------------

VARIABLES
    VIDEO_MODE,            \* static mut VIDEO_MODE
    TIMING_BUFFER,         \* static mut TIMING_BUFFER
    NUM_TEXT_COLS,         \* AtomicUsize
    NUM_TEXT_ROWS,         \* AtomicUsize
    CURRENT_TIMING_LINE,   \* AtomicU16
    CURRENT_PLAYOUT_LINE,  \* AtomicU16
    ready_for_drawing,     \* LineBuffer.ready_for_drawing of each buffer
    line_number,           \* LineBuffer.line_number of each buffer
    pixels,                \* LineBuffer.pixels: the line each buffer holds a rendering of
    CLASHED_COUNT,         \* AtomicU32
    ints0,                 \* DMA interrupt status: the channels whose transfer completed
    timing_read_addr,      \* timing channel read address: which ScanlineTimingBuffer
    pixel_read_addr,       \* pixel channel read address: which LineBuffer
    dma_busy,              \* the channels with a transfer in progress
    int_enabled,           \* core 0 accepts interrupts (PRIMASK clear)
    event,                 \* core 1 event register (sev / wfe)
    rl,                    \* Render Loop on core 1: position and locals
    pc0,                   \* core 0: the call in progress
    svm,                   \* set_video_mode: argument, mode_ok, returned
    api,                   \* video_set_mode: argument and result
    wfl,                   \* video_wait_for_line: desired_line, interrupts seen
    queued_was_ready,      \* history: the queued buffer was ready_for_drawing when queued
    pixel_irqs,            \* history: pixel interrupts handled, counted up to 2
    console,               \* TextConsole: current_row, current_col, attr, text_buffer
    GLYPH_ATTR_ARRAY,      \* static mut GLYPH_ATTR_ARRAY: the cells that are not GlyphAttr(0)
    TEXT_COLOUR_LOOKUP,    \* static mut TEXT_COLOUR_LOOKUP: entries
    con_op,                \* history: the last TextConsole call and the number of calls
    looked_up,             \* history: the last TextColourLookup call and what it gave
    pixel_pairs            \* LineBuffer.pixels of each buffer: the pairs that are not RGBPair(0)

modeVars  == << VIDEO_MODE, TIMING_BUFFER, NUM_TEXT_COLS, NUM_TEXT_ROWS >>
lineVars  == << CURRENT_TIMING_LINE, CURRENT_PLAYOUT_LINE >>
bufVars   == << ready_for_drawing, line_number, pixels >>
dmaVars   == << ints0, timing_read_addr, pixel_read_addr, dma_busy >>
core0Vars == << pc0, svm, api, wfl >>
histVars  == << queued_was_ready, pixel_irqs >>
textVars  == << console, GLYPH_ATTR_ARRAY, TEXT_COLOUR_LOOKUP, con_op, looked_up,
               pixel_pairs >>

vars == << modeVars, lineVars, bufVars, CLASHED_COUNT, dmaVars, int_enabled,
           event, rl, core0Vars, histVars, textVars >>

\* The mode the statics are initialised with.
BootMode == Mode("T640x480", "Text8x16", FALSE, FALSE)

\* Pixels nobody has rendered yet.
Garbage == 0 - 1

\* pixels: [RGBPair(0); MAX_NUM_PIXEL_PAIRS_PER_LINE]
BlankPixels == [o \in {} |-> 0]

\* The Render Loop at the top of render_scanline(b), locals dead.
RlAt(b) == [pc |-> "poll", buf |-> b, format |-> "none", rows |-> 0, cols |-> 0, line |-> 0]

\* No TextConsole call yet, no colour looked up yet.
NoOp == [n |-> 0, name |-> "none", row |-> 0, col |-> 0, s |-> << >>]

NoLookup == [fg |-> 0, bg |-> 0, blink |-> FALSE, pixels |-> 0, pair |-> 0,
             written |-> TextColourLookup_init(TextColourLookup_blank, VIDEO_PALETTE).written]

\* set_video_mode has not been called yet.
NoCall == [arg |-> BootMode, mode_ok |-> FALSE, after |-> << >>]

\* The state init() leaves: both buffers marked rendering-done, both DMA
\* channels triggered (the pixel channel on the even buffer), interrupts
\* enabled, core 1 entering its loop on the odd buffer.
InitVideo ==
    /\ VIDEO_MODE = BootMode
    /\ TIMING_BUFFER = make_640x480
    /\ NUM_TEXT_COLS = 80
    /\ NUM_TEXT_ROWS = 30
    /\ CURRENT_TIMING_LINE = 0
    /\ CURRENT_PLAYOUT_LINE = 0
    /\ ready_for_drawing = [b \in Buffers |-> FALSE]
    /\ line_number = [b \in Buffers |-> 0]
    /\ pixels = [b \in Buffers |-> Garbage]
    /\ CLASHED_COUNT = 0
    /\ ints0 = {}
    /\ timing_read_addr = "visible_line"
    /\ pixel_read_addr = "EVEN"
    /\ dma_busy = {TIMING_DMA_CHAN, PIXEL_DMA_CHAN}
    /\ int_enabled = TRUE
    /\ event = FALSE
    /\ rl = RlAt("ODD")
    /\ pc0 = "idle"
    /\ svm = [arg |-> BootMode, mode_ok |-> FALSE, returned |-> FALSE, entry |-> << >>,
              prev |-> NoCall, int_entry |-> TRUE]
    /\ api = [arg |-> BootMode, ret |-> "none"]
    /\ wfl = [desired |-> 0, irqs |-> 0]
    /\ queued_was_ready = FALSE
    /\ pixel_irqs = 0
    /\ console = TextConsole_new
    /\ GLYPH_ATTR_ARRAY = EmptyGrid
    /\ con_op = NoOp
    /\ pixel_pairs = [b \in Buffers |-> BlankPixels]

\* ... and the colour look-up table filled from the palette.
Init ==
    /\ InitVideo
    /\ TEXT_COLOUR_LOOKUP = TextColourLookup_init(TextColourLookup_blank, VIDEO_PALETTE).entries
    /\ looked_up = NoLookup

\* The same with the colour look-up table as TextColourLookup::blank()
\* makes it, TextColourLookup::init still to run.
InitColour ==
    /\ InitVideo
    /\ TEXT_COLOUR_LOOKUP = TextColourLookup_blank
    /\ looked_up = [NoLookup EXCEPT !.written = 0]

\* ------------------------------------------------------------------------
\* LineBuffer
\* ------------------------------------------------------------------------

is_ready_for_rendering(b) == ready_for_drawing[b]

\* Mutant: the negation is lost.
is_rendering_done_NotNegated(b) == is_ready_for_rendering(b)

is_rendering_done(b) == ~is_ready_for_rendering(b)

\* ------------------------------------------------------------------------
\* DMA hardware
\* ------------------------------------------------------------------------

\* The timing channel has moved its four words into the timing FIFO.
TimingDmaComplete ==
    /\ TIMING_DMA_CHAN \in dma_busy
    /\ dma_busy' = dma_busy \ {TIMING_DMA_CHAN}
    /\ ints0' = ints0 \cup {TIMING_DMA_CHAN}
    /\ UNCHANGED << textVars, modeVars, lineVars, bufVars, CLASHED_COUNT, timing_read_addr,
                    pixel_read_addr, int_enabled, event, rl, core0Vars, histVars >>

\* The pixel channel has streamed the queued buffer into the pixel FIFO.
PixelDmaComplete ==
    /\ PIXEL_DMA_CHAN \in dma_busy
    /\ dma_busy' = dma_busy \ {PIXEL_DMA_CHAN}
    /\ ints0' = ints0 \cup {PIXEL_DMA_CHAN}
    /\ UNCHANGED << textVars, modeVars, lineVars, bufVars, CLASHED_COUNT, timing_read_addr,
                    pixel_read_addr, int_enabled, event, rl, core0Vars, histVars >>

\* ------------------------------------------------------------------------
\* irq(): the DMA interrupt handler
\* ------------------------------------------------------------------------

LongestFrame == make_640x480.back_porch_ends_at

NextTimingLine(old, tb) ==
    IF old = tb.back_porch_ends_at THEN 0 ELSE (old + 1) % W16

\* Mutant: the comparisons are strict.
SelectTimingBuffer_Strict(next, tb) ==
    IF next < tb.visible_lines_ends_at THEN "visible_line"
    ELSE IF next < tb.front_porch_end_at THEN "vblank_porch_buffer"
    ELSE IF next < tb.sync_pulse_ends_at THEN "vblank_sync_buffer"
    ELSE "vblank_porch_buffer"

SelectTimingBuffer(next, tb) ==
    IF next <= tb.visible_lines_ends_at THEN "visible_line"
    ELSE IF next <= tb.front_porch_end_at THEN "vblank_porch_buffer"
    ELSE IF next <= tb.sync_pulse_ends_at THEN "vblank_sync_buffer"
    ELSE "vblank_porch_buffer"

\* Mutant: the playout line wraps one line late.
NextPlayoutLine_WrapsLate(last, tb) ==
    IF last <= tb.visible_lines_ends_at THEN last + 1 ELSE 0

NextPlayoutLine(last, tb) ==
    IF last < tb.visible_lines_ends_at THEN last + 1 ELSE 0

\* Mutant: the look-ahead line does not wrap.
NextDrawLine_NoWrap(next_playout, tb) == next_playout + 1

NextDrawLine(next_playout, tb) ==
    IF next_playout < tb.visible_lines_ends_at THEN next_playout + 1 ELSE 0

\* Mutant: the buffer that just played is queued again.
BufferToQueue_SameParity(last) == IF last % 2 = 0 THEN "EVEN" ELSE "ODD"

\* The buffer irq() queues after playout line `last`: odd after an even line.
BufferToQueue(last) == IF last % 2 = 0 THEN "ODD" ELSE "EVEN"

\* The buffer irq() hands back to the Render Loop after playout line `last`.
BufferToRelease(last) == IF last % 2 = 0 THEN "EVEN" ELSE "ODD"

\* The clash test made on the buffer about to be queued.
ClashDetected(b) == ~is_rendering_done(b)

IrqTimingPart ==
    IF TIMING_DMA_CHAN \in ints0
    THEN LET old_timing_line == CURRENT_TIMING_LINE
             next_timing_line == NextTimingLine(old_timing_line, TIMING_BUFFER)
         IN  /\ old_timing_line < LongestFrame + MaxOverrun
             /\ CURRENT_TIMING_LINE' = next_timing_line
             /\ timing_read_addr' = SelectTimingBuffer(next_timing_line, TIMING_BUFFER)
    ELSE UNCHANGED << CURRENT_TIMING_LINE, timing_read_addr >>

IrqPixelPart ==
    IF PIXEL_DMA_CHAN \in ints0
    THEN LET last_playout_line == CURRENT_PLAYOUT_LINE
             next_playout_line == NextPlayoutLine(last_playout_line, TIMING_BUFFER)
             next_draw_line == NextDrawLine(next_playout_line, TIMING_BUFFER)
             queue == BufferToQueue(last_playout_line)
             release == BufferToRelease(last_playout_line)
             clash == ClashDetected(queue)
         IN  /\ clash => CLASHED_COUNT < MaxClashes
             /\ CLASHED_COUNT' = IF clash THEN CLASHED_COUNT + 1 ELSE CLASHED_COUNT
             /\ pixel_read_addr' = queue
             \* set_ready: line_number first, then the flag
             /\ line_number' = [line_number EXCEPT ![release] = next_draw_line]
             /\ ready_for_drawing' = [ready_for_drawing EXCEPT ![release] = TRUE]
             /\ CURRENT_PLAYOUT_LINE' = next_playout_line
             /\ queued_was_ready' = clash
             /\ pixel_irqs' = IF pixel_irqs < 2 THEN pixel_irqs + 1 ELSE pixel_irqs
             /\ wfl' = IF pc0 = "wfl" THEN [wfl EXCEPT !.irqs = @ + 1] ELSE wfl
    ELSE UNCHANGED << CLASHED_COUNT, pixel_read_addr, line_number, ready_for_drawing,
                      CURRENT_PLAYOUT_LINE, queued_was_ready, pixel_irqs, wfl >>

\* One run of the handler: it serves every channel whose bit is set in
\* ints0, re-triggers that channel, and ends with sev.
Irq ==
    /\ int_enabled
    /\ ints0 # {}
    /\ IrqTimingPart
    /\ IrqPixelPart
    /\ ints0' = {}
    /\ dma_busy' = dma_busy \cup ints0
    /\ event' = TRUE
    /\ UNCHANGED << textVars, modeVars, pixels, int_enabled, rl, pc0, svm, api >>

\* ------------------------------------------------------------------------
\* core1_main / render_scanline: the Render Loop on core 1
\* ------------------------------------------------------------------------

\* Font::height_shift of font16::FONT and font8::FONT.
height_shift(format) == IF format = "Text8x16" THEN 4 ELSE 3

TextRow(line, format) == line \div (2 ^ height_shift(format))

FontRow(line, format) == line % (2 ^ height_shift(format))

\* MAX_NUM_PIXELS_PER_LINE / 2: two pixels to a pair.
MAX_NUM_PIXEL_PAIRS_PER_LINE == 640 \div 2

\* Font::data of font16::FONT and font8::FONT, by byte offset: all the
\* row 0s first, then all the row 1s.  The bitmaps themselves are not in
\* src/; this stand-in keeps glyphs 0, 32 and 255 blank, as a CP850 font
\* has them, and gives every other glyph a pattern that differs from
\* row to row and between the two fonts.
FontData(format, offset) ==
    LET glyph_index == offset % 256
        row == offset \div 256
    IN  IF glyph_index \in {0, Space, 255}
        THEN 0
        ELSE ((glyph_index * 29) + (row * 53)
              + (IF format = "Text8x16" THEN 0 ELSE 64)) % 256

\* let font_ptr = font.data.as_ptr().add(font_row * 256)
FontPtr(font_row) == font_row * 256

\* Mutant: the four pairs of a cell come out right to left.
MonoShift_LowFirst(k) == 2 * k

\* mono_pixels >> 6, >> 4, >> 2 and >> 0 for the pairs 0..3 of a cell.
MonoShift(k) == 6 - (2 * k)

\* LineBuffer.pixels, held as the pairs that are not RGBPair(0).
PairAt(buffer, offset) == IF offset \in DOMAIN buffer THEN buffer[offset] ELSE 0

\* render_scanline_text::<N>: for each of the N columns the cell at
\* row_start + col, its font byte at font_ptr + glyph, and four pairs
\* from the look-up table at pair_offset .. pair_offset + 3.  Pairs
\* beyond 4 * N keep what the buffer held.  Only the pairs that are not
\* RGBPair(0) are kept: they can lie in the columns of the cells that are
\* not GlyphAttr(0), or anywhere if GlyphAttr(0) itself draws some.
render_scanline_text(N, grid, row_start, format, font_ptr, table, buffer) ==
    LET CellPair(glyphattr, k) ==
            LET at == GlyphAttr_attr(glyphattr)
                glyph_index == GlyphAttr_glyph(glyphattr)
                mono_pixels == FontData(format, font_ptr + glyph_index)
            IN  lookup(table, at, mono_pixels \div (2 ^ MonoShift(k)))
        Pair(pair_offset) ==
            IF pair_offset >= 4 * N
            THEN PairAt(buffer, pair_offset)
            ELSE CellPair(Cell(grid, row_start + (pair_offset \div 4)), pair_offset % 4)
        cols == { o - row_start : o \in (DOMAIN grid) \cap (row_start .. (row_start + N - 1)) }
        drawn == IF \E k \in 0 .. 3 : CellPair(GlyphAttr0, k) # 0
                 THEN 0 .. ((4 * N) - 1)
                 ELSE { (4 * c) + k : c \in cols, k \in 0 .. 3 }
        kept == { o \in DOMAIN buffer : o >= 4 * N }
        lit == { o \in drawn \cup kept : Pair(o) # 0 }
    IN  [o \in lit |-> Pair(o)]

\* core1_main renders the odd buffer, then the even buffer, forever.
RlReturn == rl' = RlAt(OtherBuffer(rl.buf))

\* Mutant: render_scanline does not wait for the buffer.
RenderPoll_NoWait ==
    /\ rl.pc = "poll"
    /\ rl' = [rl EXCEPT !.pc = "format"]
    /\ UNCHANGED << textVars, modeVars, lineVars, bufVars, CLASHED_COUNT, dmaVars, int_enabled,
                    event, core0Vars, histVars >>

\* while !scan_line_buffer.is_ready_for_rendering()
RenderPoll ==
    /\ rl.pc = "poll"
    /\ rl' = [rl EXCEPT !.pc = IF is_ready_for_rendering(rl.buf) THEN "format" ELSE "wfe"]
    /\ UNCHANGED << textVars, modeVars, lineVars, bufVars, CLASHED_COUNT, dmaVars, int_enabled,
                    event, core0Vars, histVars >>

\* Mutant: wfi in place of wfe. No interrupt is routed to core 1, so the
\* core does not wake.
RenderWfe_Wfi ==
    /\ rl.pc = "wfe"
    /\ FALSE
    /\ UNCHANGED vars

\* cortex_m::asm::wfe(): sleeps until the event register is set, and clears it.
RenderWfe ==
    /\ rl.pc = "wfe"
    /\ event
    /\ event' = FALSE
    /\ rl' = [rl EXCEPT !.pc = "poll"]
    /\ UNCHANGED << textVars, modeVars, lineVars, bufVars, CLASHED_COUNT, dmaVars, int_enabled,
                    core0Vars, histVars >>

\* let font = match VIDEO_MODE.format(): any format but the two text ones returns 0.
RenderReadFormat ==
    /\ rl.pc = "format"
    /\ IF IsTextFormat(VIDEO_MODE.format)
       THEN rl' = [rl EXCEPT !.pc = "rows", !.format = VIDEO_MODE.format]
       ELSE RlReturn
    /\ UNCHANGED << textVars, modeVars, lineVars, bufVars, CLASHED_COUNT, dmaVars, int_enabled,
                    event, core0Vars, histVars >>

RenderReadRows ==
    /\ rl.pc = "rows"
    /\ rl' = [rl EXCEPT !.pc = "cols", !.rows = NUM_TEXT_ROWS]
    /\ UNCHANGED << textVars, modeVars, lineVars, bufVars, CLASHED_COUNT, dmaVars, int_enabled,
                    event, core0Vars, histVars >>

RenderReadCols ==
    /\ rl.pc = "cols"
    /\ rl' = [rl EXCEPT !.pc = "line", !.cols = NUM_TEXT_COLS]
    /\ UNCHANGED << textVars, modeVars, lineVars, bufVars, CLASHED_COUNT, dmaVars, int_enabled,
                    event, core0Vars, histVars >>

\* Loads line_number; a text row at or beyond num_rows returns 0 at once.
RenderReadLine ==
    /\ rl.pc = "line"
    /\ LET current_line_num == line_number[rl.buf]
       IN  IF TextRow(current_line_num, rl.format) >= rl.rows
           THEN RlReturn
           ELSE rl' = [rl EXCEPT !.pc = "draw", !.line = current_line_num]
    /\ UNCHANGED << textVars, modeVars, lineVars, bufVars, CLASHED_COUNT, dmaVars, int_enabled,
                    event, core0Vars, histVars >>

\* match num_cols: render_scanline_text::<80> or ::<40> fills the buffer,
\* any other width writes nothing.
RenderDraw ==
    /\ rl.pc = "draw"
    /\ pixels' = IF rl.cols \in {80, 40}
                 THEN [pixels EXCEPT ![rl.buf] = rl.line]
                 ELSE pixels
    /\ LET text_row == TextRow(rl.line, rl.format)
           font_row == FontRow(rl.line, rl.format)
           row_start == text_row * rl.cols
       IN  pixel_pairs' =
               IF rl.cols \in {80, 40}
               THEN [pixel_pairs EXCEPT ![rl.buf] =
                        render_scanline_text(rl.cols, GLYPH_ATTR_ARRAY, row_start, rl.format,
                                             FontPtr(font_row), TEXT_COLOUR_LOOKUP, @)]
               ELSE pixel_pairs
    /\ rl' = [rl EXCEPT !.pc = "done"]
    /\ UNCHANGED << console, GLYPH_ATTR_ARRAY, TEXT_COLOUR_LOOKUP, con_op, looked_up,
                    modeVars, lineVars, ready_for_drawing, line_number, CLASHED_COUNT,
                    dmaVars, int_enabled, event, core0Vars, histVars >>

\* Mutant: the buffer is marked done in the arms of `match num_cols` that
\* draw, not after the match.
RenderMarkDone_InDrawingArms ==
    /\ rl.pc = "done"
    /\ ready_for_drawing' = IF rl.cols \in {80, 40}
                            THEN [ready_for_drawing EXCEPT ![rl.buf] = FALSE]
                            ELSE ready_for_drawing
    /\ RlReturn
    /\ UNCHANGED << textVars, modeVars, lineVars, line_number, pixels, CLASHED_COUNT, dmaVars,
                    int_enabled, event, core0Vars, histVars >>

\* scan_line_buffer.mark_rendering_done()
RenderMarkDone ==
    /\ rl.pc = "done"
    /\ ready_for_drawing' = [ready_for_drawing EXCEPT ![rl.buf] = FALSE]
    /\ RlReturn
    /\ UNCHANGED << textVars, modeVars, lineVars, line_number, pixels, CLASHED_COUNT, dmaVars,
                    int_enabled, event, core0Vars, histVars >>

\* The Render Loop has seen ready_for_drawing == true on b and not yet cleared it.
RenderHolds(b) == rl.buf = b /\ rl.pc \in {"format", "rows", "cols", "line", "draw", "done"}

RenderStep ==
    \/ RenderPoll
    \/ RenderWfe
    \/ RenderReadFormat
    \/ RenderReadRows
    \/ RenderReadCols
    \/ RenderReadLine
    \/ RenderDraw
    \/ RenderMarkDone

\* ------------------------------------------------------------------------
\* set_video_mode / get_video_mode / get_scan_line / get_num_scan_lines
\* ------------------------------------------------------------------------

get_video_mode == VIDEO_MODE

get_scan_line == CURRENT_PLAYOUT_LINE

get_num_scan_lines == vertical_lines(get_video_mode)

\* The match of set_video_mode: the modes it accepts.
ModeOk(m) ==
    /\ m.timing \in {"T640x480", "T640x400"}
    /\ m.format \in {"Text8x16", "Text8x8"}
    /\ m.horiz_2x = FALSE
    /\ m.vert_2x = FALSE

\* The modes the calls are tried with: the four accepted ones, and one
\* rejected for each reason.
ModeInputs ==
    { Mode(t, f, FALSE, FALSE) : t \in {"T640x480", "T640x400"}, f \in {"Text8x16", "Text8x8"} }
    \cup { Mode("T800x600", "Text8x16", FALSE, FALSE),
           Mode("T640x480", "Chunky8", FALSE, FALSE),
           Mode("T640x480", "Text8x16", TRUE, FALSE),
           Mode("T640x400", "Text8x8", FALSE, TRUE) }

\* What a rejected mode must leave alone.
VideoState ==
    << VIDEO_MODE, TIMING_BUFFER, NUM_TEXT_COLS, NUM_TEXT_ROWS, CURRENT_TIMING_LINE,
       CURRENT_PLAYOUT_LINE, ready_for_drawing, line_number, pixels >>

\* Mutant: interrupts are left enabled during the update.
SvmBegin_InterruptsOn(m) ==
    /\ pc0 = "idle"
    /\ svm' = [svm EXCEPT !.arg = m, !.mode_ok = FALSE, !.returned = FALSE,
                           !.entry = VideoState, !.int_entry = int_enabled]
    /\ pc0' = "svm_match"
    /\ UNCHANGED << textVars, modeVars, lineVars, bufVars, CLASHED_COUNT, dmaVars, int_enabled,
                    event, rl, api, wfl, histVars >>

\* cortex_m::interrupt::disable().  svm.entry records the video state the
\* call found (history, dropped when the call returns), svm.int_entry
\* whether interrupts were enabled when it was called (history).
SvmBegin(m) ==
    /\ pc0 = "idle"
    /\ int_enabled' = FALSE
    /\ svm' = [svm EXCEPT !.arg = m, !.mode_ok = FALSE, !.returned = FALSE,
                           !.entry = VideoState, !.int_entry = int_enabled]
    /\ pc0' = "svm_match"
    /\ UNCHANGED << textVars, modeVars, lineVars, bufVars, CLASHED_COUNT, dmaVars, event, rl,
                    api, wfl, histVars >>

\* Mutant: the mode is stored before the match decides.
SvmMatch_StoresFirst ==
    /\ pc0 = "svm_match"
    /\ svm' = [svm EXCEPT !.mode_ok = ModeOk(svm.arg)]
    /\ VIDEO_MODE' = svm.arg
    /\ pc0' = IF ModeOk(svm.arg) THEN "svm_timing_words" ELSE "svm_enable"
    /\ UNCHANGED << textVars, TIMING_BUFFER, NUM_TEXT_COLS, NUM_TEXT_ROWS, lineVars, bufVars,
                    CLASHED_COUNT, dmaVars, int_enabled, event, rl, api, wfl, histVars >>

\* let mode_ok = match ...: an accepted mode is stored in VIDEO_MODE; its
\* TimingBuffer follows.
SvmMatch ==
    /\ pc0 = "svm_match"
    /\ LET mode_ok == ModeOk(svm.arg)
       IN  /\ svm' = [svm EXCEPT !.mode_ok = mode_ok]
           /\ IF mode_ok
              THEN /\ VIDEO_MODE' = svm.arg
                   /\ pc0' = "svm_timing_words"
              ELSE /\ UNCHANGED VIDEO_MODE
                   /\ pc0' = "svm_enable"
    /\ UNCHANGED << textVars, TIMING_BUFFER, NUM_TEXT_COLS, NUM_TEXT_ROWS, lineVars, bufVars,
                    CLASHED_COUNT, dmaVars, int_enabled, event, rl, api, wfl, histVars >>

\* TIMING_BUFFER = TimingBuffer::make_640x480() (or make_640x400()) is a copy of sixteen words,
\* not one store: the three ScanlineTimingBuffers are copied first ...
SvmStoreTimingWords ==
    /\ pc0 = "svm_timing_words"
    /\ LET new == TimingBufferFor(svm.arg.timing)
       IN  TIMING_BUFFER' = [TIMING_BUFFER EXCEPT
                                !.visible_line = new.visible_line,
                                !.vblank_porch_buffer = new.vblank_porch_buffer,
                                !.vblank_sync_buffer = new.vblank_sync_buffer]
    /\ pc0' = "svm_timing_lines"
    /\ UNCHANGED << textVars, VIDEO_MODE, NUM_TEXT_COLS, NUM_TEXT_ROWS, lineVars, bufVars,
                    CLASHED_COUNT, dmaVars, int_enabled, event, rl, svm, api, wfl,
                    histVars >>

\* ... and the four boundary line numbers after them.
SvmStoreTimingLines ==
    /\ pc0 = "svm_timing_lines"
    /\ LET new == TimingBufferFor(svm.arg.timing)
       IN  TIMING_BUFFER' = [TIMING_BUFFER EXCEPT
                                !.visible_lines_ends_at = new.visible_lines_ends_at,
                                !.front_porch_end_at = new.front_porch_end_at,
                                !.sync_pulse_ends_at = new.sync_pulse_ends_at,
                                !.back_porch_ends_at = new.back_porch_ends_at]
    /\ pc0' = "svm_cols"
    /\ UNCHANGED << textVars, VIDEO_MODE, NUM_TEXT_COLS, NUM_TEXT_ROWS, lineVars, bufVars,
                    CLASHED_COUNT, dmaVars, int_enabled, event, rl, svm, api, wfl,
                    histVars >>

\* Mutant: the column count is derived from the one in force.
SvmStoreCols_FromCurrent ==
    /\ pc0 = "svm_cols"
    /\ NUM_TEXT_COLS' = MAX_TEXT_COLS - NUM_TEXT_COLS
    /\ pc0' = "svm_rows"
    /\ UNCHANGED << textVars, VIDEO_MODE, TIMING_BUFFER, NUM_TEXT_ROWS, lineVars, bufVars,
                    CLASHED_COUNT, dmaVars, int_enabled, event, rl, svm, api, wfl,
                    histVars >>

SvmStoreCols ==
    /\ pc0 = "svm_cols"
    /\ NUM_TEXT_COLS' = unwrap_or(text_width(svm.arg), 0)
    /\ pc0' = "svm_rows"
    /\ UNCHANGED << textVars, VIDEO_MODE, TIMING_BUFFER, NUM_TEXT_ROWS, lineVars, bufVars,
                    CLASHED_COUNT, dmaVars, int_enabled, event, rl, svm, api, wfl,
                    histVars >>

SvmStoreRows ==
    /\ pc0 = "svm_rows"
    /\ NUM_TEXT_ROWS' = unwrap_or(text_height(svm.arg), 0)
    /\ pc0' = "svm_enable"
    /\ UNCHANGED << textVars, VIDEO_MODE, TIMING_BUFFER, NUM_TEXT_COLS, lineVars, bufVars,
                    CLASHED_COUNT, dmaVars, int_enabled, event, rl, svm, api, wfl,
                    histVars >>

\* cortex_m::interrupt::enable(), then mode_ok is returned.  svm.prev keeps
\* the call and the mode state it left (history).
SvmEnable ==
    /\ pc0 = "svm_enable"
    /\ int_enabled' = TRUE
    /\ svm' = [svm EXCEPT !.returned = TRUE, !.entry = << >>,
                          !.prev = [arg |-> svm.arg, mode_ok |-> svm.mode_ok,
                                    after |-> modeVars]]
    /\ pc0' = "idle"
    /\ UNCHANGED << textVars, modeVars, lineVars, bufVars, CLASHED_COUNT, dmaVars, event, rl,
                    api, wfl, histVars >>

SvmStep ==
    \/ SvmMatch
    \/ SvmStoreTimingWords
    \/ SvmStoreTimingLines
    \/ SvmStoreCols
    \/ SvmStoreRows
    \/ SvmEnable

\* ------------------------------------------------------------------------
\* BIOS API (main.rs)
\* ------------------------------------------------------------------------

\* video_set_mode: the call into vga::set_video_mode is commented out, and
\* Ok(()) is returned for every mode.
video_set_mode(m) ==
    /\ pc0 = "idle"
    /\ api' = [arg |-> m, ret |-> "Ok"]
    /\ UNCHANGED << textVars, modeVars, lineVars, bufVars, CLASHED_COUNT, dmaVars, int_enabled,
                    event, rl, pc0, svm, wfl, histVars >>

video_get_mode == get_video_mode

\* u16::min
Min(a, b) == IF a < b THEN a ELSE b

\* let desired_line = line.min(vga::get_num_scan_lines());
DesiredLine(line) == Min(line, get_num_scan_lines)

WaitBegin(line) ==
    /\ pc0 = "idle"
    /\ wfl' = [desired |-> DesiredLine(line), irqs |-> 0]
    /\ pc0' = "wfl"
    /\ UNCHANGED << textVars, modeVars, lineVars, bufVars, CLASHED_COUNT, dmaVars, int_enabled,
                    event, rl, svm, api, histVars >>

\* One turn of the loop that finds current_line == desired_line, and breaks.
\* (A turn that finds them different changes nothing.)
WaitPollBreak ==
    /\ pc0 = "wfl"
    /\ get_scan_line = wfl.desired
    /\ pc0' = "idle"
    /\ UNCHANGED << textVars, modeVars, lineVars, bufVars, CLASHED_COUNT, dmaVars, int_enabled,
                    event, rl, svm, api, wfl, histVars >>

\* ------------------------------------------------------------------------
\* Specifications
\* ------------------------------------------------------------------------

\* set_video_mode called once while the first line is still playing out:
\* the video mode is chosen before the first pixel interrupt and is fixed
\* from then on.
BootSetVideoMode ==
    /\ pixel_irqs = 0
    /\ CURRENT_TIMING_LINE = 0
    /\ ~svm.returned
    /\ \E m \in ModeInputs : SvmBegin(m)

\* The pixel side in a fixed video mode: the pixel DMA channel, the
\* interrupt handler and the Render Loop, interleaved freely.
Next == PixelDmaComplete \/ Irq \/ RenderStep \/ BootSetVideoMode \/ SvmStep

Spec == Init /\ [][Next]_vars

\* ------------------------------------------------------------------------
\* Properties of the double-buffering protocol (checked under Spec)
\* ------------------------------------------------------------------------

\* This step is a run of irq() that serves the pixel channel.
PixelIrqHandled == PIXEL_DMA_CHAN \in ints0 /\ PIXEL_DMA_CHAN \notin ints0'

\* The pixel channel is streaming buffer b.
Streaming(b) == pixel_read_addr = b /\ PIXEL_DMA_CHAN \in dma_busy

\* The visible line count the claims state for a timing.
ClaimedVisibleLines(timing) == IF timing = "T640x480" THEN 480 ELSE 400

\* The buffer of opposite parity to playout line n.
OppositeParity(n) == IF n % 2 = 0 THEN "ODD" ELSE "EVEN"

\* C1 as stated: the Render Loop never holds a buffer (between seeing
\* ready_for_drawing == true and clearing it) that the pixel DMA is streaming.
C1_NeverWrittenWhileStreamed ==
    \A b \in Buffers : ~(RenderHolds(b) /\ Streaming(b))

\* C1 amended: the Render Loop holds a buffer the pixel DMA is streaming only
\* if that buffer still had ready_for_drawing == true when irq() queued it,
\* a queueing that irq() counted in CLASHED_COUNT.
C1_WrittenWhileStreamedOnlyAfterClash ==
    \A b \in Buffers :
        (RenderHolds(b) /\ Streaming(b)) => (queued_was_ready /\ CLASHED_COUNT >= 1)

\* C1 witness: the Render Loop is drawing into the buffer being streamed.
C1_Witness ==
    \E b \in Buffers : rl.buf = b /\ rl.pc = "draw" /\ Streaming(b) /\ queued_was_ready

\* C2: CLASHED_COUNT grows by exactly 1 in a pixel interrupt that finds the
\* buffer it is about to queue (of opposite parity to the line just played)
\* still ready_for_drawing, and no other step changes it.
C2_ClashCountedExactly ==
    [][ CLASHED_COUNT' =
            IF PixelIrqHandled /\ ready_for_drawing[OppositeParity(CURRENT_PLAYOUT_LINE)]
            THEN CLASHED_COUNT + 1
            ELSE CLASHED_COUNT ]_vars

\* C2 witness: clashes were counted, and later interrupts found the buffer done.
C2_Witness ==
    /\ CLASHED_COUNT = 2
    /\ CURRENT_PLAYOUT_LINE = 7
    /\ ~queued_was_ready

\* C3: every pixel interrupt re-arms the pixel DMA with the buffer of
\* opposite parity to the line just played, which is never the buffer queued
\* by the interrupt before: EVEN and ODD alternate, also across the wrap.
C3_QueueAlternates ==
    [][ PixelIrqHandled =>
            /\ pixel_read_addr' = OppositeParity(CURRENT_PLAYOUT_LINE)
            /\ pixel_read_addr' # pixel_read_addr
            /\ PIXEL_DMA_CHAN \in dma_busy' ]_vars

\* C3 witness: the interrupt after the last visible line has queued the even
\* buffer while it was still being rendered.
C3_Witness ==
    /\ pixel_irqs = 2
    /\ CURRENT_PLAYOUT_LINE = 0
    /\ Streaming("EVEN")
    /\ queued_was_ready

\* C4: a pixel interrupt after playout line `last` marks the buffer that just
\* played ready with line_number (last + 2) mod (visible lines), and from the
\* second interrupt on the queued buffer is tagged with CURRENT_PLAYOUT_LINE.
C4_LookAhead ==
    /\ [][ PixelIrqHandled =>
               /\ ready_for_drawing'[pixel_read_addr]
               /\ line_number'[pixel_read_addr] =
                      (CURRENT_PLAYOUT_LINE + 2) % ClaimedVisibleLines(VIDEO_MODE.timing) ]_vars
    /\ [](pixel_irqs >= 2 => line_number[pixel_read_addr] = CURRENT_PLAYOUT_LINE)

\* C4 witness: the last visible line of 640x400 has played out, the odd
\* buffer was handed back for line 1 and the even one is queued for line 0.
C4_Witness ==
    /\ VIDEO_MODE.timing = "T640x400"
    /\ pixel_irqs = 2
    /\ CURRENT_PLAYOUT_LINE = 0
    /\ line_number["ODD"] = 1
    /\ pixel_read_addr = "EVEN"

\* ------------------------------------------------------------------------
\* The timing side
\* ------------------------------------------------------------------------

\* The timing side in a fixed video mode: the timing DMA channel and the
\* interrupt handler, the mode chosen once at the start of a frame by
\* vga::set_video_mode; the API's video_set_mode is called at any time.
NextTiming ==
    \/ TimingDmaComplete
    \/ Irq
    \/ BootSetVideoMode
    \/ SvmStep
    \/ \E m \in ModeInputs : video_set_mode(m)

SpecTiming == Init /\ [][NextTiming]_vars

\* The timing side with set_video_mode called at any point of the frame,
\* with any of ModeInputs.
NextMode ==
    \/ TimingDmaComplete
    \/ Irq
    \/ \E m \in ModeInputs : SvmBegin(m)
    \/ SvmStep

SpecMode == Init /\ [][NextMode]_vars

\* This step is a run of irq() that serves the timing channel.
TimingIrqHandled == TIMING_DMA_CHAN \in ints0 /\ TIMING_DMA_CHAN \notin ints0'

\* The frame as C5 states it: visible lines, front porch, sync, back porch.
ClaimedFrame(timing) ==
    IF timing = "T640x480"
    THEN [visible |-> 480, front |-> 10, sync |-> 2, back |-> 33, total |-> 525]
    ELSE [visible |-> 400, front |-> 12, sync |-> 2, back |-> 35, total |-> 449]

ClaimedCategory(timing, n) ==
    LET f == ClaimedFrame(timing)
    IN  IF n < f.visible THEN "visible_line"
        ELSE IF n < f.visible + f.front THEN "vblank_porch_buffer"
        ELSE IF n < f.visible + f.front + f.sync THEN "vblank_sync_buffer"
        ELSE "vblank_porch_buffer"

\* C5: in a fixed mode the timing line runs cyclically through the frame
\* (525 lines at 640x480, 449 at 640x400), and the timing buffer loaded for
\* each line is the visible one for the visible lines, the porch one for the
\* front porch, the sync one for the sync pulse and the porch one for the
\* back porch (480/10/2/33 and 400/12/2/35 lines).
C5_TimingCycle ==
    /\ [](timing_read_addr = ClaimedCategory(VIDEO_MODE.timing, CURRENT_TIMING_LINE))
    /\ [][ TimingIrqHandled =>
               /\ CURRENT_TIMING_LINE' =
                      (CURRENT_TIMING_LINE + 1) % ClaimedFrame(VIDEO_MODE.timing).total
               /\ TIMING_DMA_CHAN \in dma_busy' ]_vars

\* C5 witness: 640x400, second line of the sync pulse, sync buffer loaded.
C5_Witness ==
    /\ VIDEO_MODE.timing = "T640x400"
    /\ CURRENT_TIMING_LINE = 413
    /\ timing_read_addr = "vblank_sync_buffer"
    /\ TIMING_DMA_CHAN \in dma_busy

\* C6 as stated: both counters stay inside the frame of the current mode in
\* every reachable state, also after set_video_mode.
C6_CountersInsideFrame ==
    /\ CURRENT_TIMING_LINE <= TIMING_BUFFER.back_porch_ends_at
    /\ CURRENT_PLAYOUT_LINE <= TIMING_BUFFER.visible_lines_ends_at

\* C8: after set_video_mode(m) has returned true, get_video_mode() is m,
\* get_num_scan_lines() is 480 or 400 by m's timing, TIMING_BUFFER is the one
\* built for m's timing, and NUM_TEXT_COLS / NUM_TEXT_ROWS are m's text size.
C8_AcceptedModeIsSet ==
    (pc0 = "idle" /\ svm.returned /\ svm.mode_ok) =>
        LET m == svm.arg
            lines == ClaimedVisibleLines(m.timing)
        IN  /\ get_video_mode = m
            /\ m.timing \in {"T640x480", "T640x400"}
            /\ get_num_scan_lines = lines
            /\ TIMING_BUFFER = IF m.timing = "T640x480" THEN make_640x480 ELSE make_640x400
            /\ NUM_TEXT_COLS = 80
            /\ NUM_TEXT_ROWS = lines \div (IF m.format = "Text8x16" THEN 16 ELSE 8)

\* C8 witness: 640x400 with the 8x8 font was set in the middle of a frame.
C8_Witness ==
    /\ pc0 = "idle"
    /\ svm.returned
    /\ svm.mode_ok
    /\ svm.arg = Mode("T640x400", "Text8x8", FALSE, FALSE)
    /\ NUM_TEXT_ROWS = 50
    /\ CURRENT_TIMING_LINE = 200

\* C9: when set_video_mode returns false, the video state is the one the
\* call found.
C9_RejectedModeChangesNothing ==
    [][ (pc0 = "svm_enable" /\ pc0' = "idle" /\ ~svm.mode_ok) =>
            VideoState' = svm.entry ]_vars

\* C9 witness: a doubled mode was rejected while 640x400 was set.
C9_Witness ==
    /\ pc0 = "idle"
    /\ svm.returned
    /\ ~svm.mode_ok
    /\ svm.arg.horiz_2x
    /\ VIDEO_MODE.timing = "T640x400"

\* This step is a run of irq().
IrqRuns == ints0 # {} /\ ints0' = {}

\* set_video_mode is between its first and its last write.
SvmUpdating == pc0 \in {"svm_timing_words", "svm_timing_lines", "svm_cols", "svm_rows"}

\* C11: irq() never runs between the first and the last write of
\* set_video_mode, and at every run of irq() VIDEO_MODE, the boundary line
\* numbers of TIMING_BUFFER and its timing words belong to the same mode.
C11_IrqNeverSeesHalfUpdate ==
    [][ IrqRuns =>
            /\ ~SvmUpdating
            /\ \E t \in {"T640x480", "T640x400"} :
                   /\ VIDEO_MODE.timing = t
                   /\ TIMING_BUFFER = (IF t = "T640x480" THEN make_640x480 ELSE make_640x400) ]_vars

\* C11 witness: a DMA interrupt is pending while TIMING_BUFFER holds the
\* timing words of 640x400 and still the boundary line numbers of 640x480.
C11_Witness ==
    /\ pc0 = "svm_timing_lines"
    /\ ints0 # {}
    /\ VIDEO_MODE.timing = "T640x400"
    /\ TIMING_BUFFER.visible_line = make_640x400.visible_line
    /\ TIMING_BUFFER.back_porch_ends_at = make_640x480.back_porch_ends_at

\* C13: a second set_video_mode call in a row with the same accepted mode
\* leaves TIMING_BUFFER, VIDEO_MODE, NUM_TEXT_COLS and NUM_TEXT_ROWS as the
\* first call left them.
C13_SetVideoModeIdempotent ==
    [][ (/\ pc0 = "svm_enable"
         /\ pc0' = "idle"
         /\ svm.mode_ok
         /\ svm.prev.mode_ok
         /\ svm.prev.arg = svm.arg) =>
            modeVars' = svm.prev.after ]_vars

\* C13 witness: 640x400 with the 8x8 font has been set twice in a row.
C13_Witness ==
    /\ pc0 = "idle"
    /\ svm.returned
    /\ svm.mode_ok
    /\ svm.arg = Mode("T640x400", "Text8x8", FALSE, FALSE)
    /\ svm.prev.arg = svm.arg
    /\ svm.prev.mode_ok
    /\ svm.prev.after = modeVars
    /\ CURRENT_TIMING_LINE = 3

\* ------------------------------------------------------------------------
\* A mode change while the Render Loop runs
\* ------------------------------------------------------------------------

\* set_video_mode called once on core 0 during the first MaxRaceLine lines
\* of the first frame, while core 1 renders.
RaceSetVideoMode ==
    /\ CURRENT_PLAYOUT_LINE < MaxRaceLine
    /\ ~svm.returned
    /\ \E m \in ModeInputs : SvmBegin(m)

NextRace == PixelDmaComplete \/ Irq \/ RenderStep \/ RaceSetVideoMode \/ SvmStep

SpecRace == Init /\ [][NextRace]_vars

\* render_scanline has loaded the format, the row count and the column count.
RenderHasModeLocals == rl.pc \in {"line", "draw", "done"}

\* C12 as stated: the format, the row count and the column count one
\* render_scanline call works with belong to one and the same mode.
C12_RenderSeesOneMode ==
    RenderHasModeLocals =>
        \E m \in ModeInputs :
            /\ ModeOk(m)
            /\ m.format = rl.format
            /\ unwrap_or(text_height(m), 0) = rl.rows
            /\ unwrap_or(text_width(m), 0) = rl.cols

\* ------------------------------------------------------------------------
\* The BIOS API calls
\* ------------------------------------------------------------------------

\* The line arguments video_wait_for_line is tried with, and the playout
\* lines at which it is called.
WaitLineInputs == {0, 479, 480, 65535}

WaitStartLines == {0, 479}

\* The busy loop of video_wait_for_line takes a few cycles a turn and a scan
\* line thousands: the loop has looked at every playout line before the
\* next interrupt changes it.
PacedIrq ==
    /\ pc0 = "wfl" =>
           /\ get_scan_line # wfl.desired
           /\ wfl.irqs < get_num_scan_lines + MaxExtraWait
    /\ Irq

NextApi ==
    \/ PixelDmaComplete
    \/ PacedIrq
    \/ RenderStep
    \/ \E line \in WaitLineInputs : CURRENT_PLAYOUT_LINE \in WaitStartLines /\ WaitBegin(line)
    \/ WaitPollBreak

SpecApi == Init /\ [][NextApi]_vars

\* C7 as stated: video_wait_for_line has returned by the time one frame's
\* worth of pixel interrupts has been served since the call.
C7_WaitReturnsWithinOneFrame ==
    pc0 = "wfl" => wfl.irqs <= get_num_scan_lines

\* C10 as stated: video_set_mode returns Ok only for a supported mode, which
\* video_get_mode then reports.
C10_OkOnlyIfModeSet ==
    api.ret = "Ok" => (ModeOk(api.arg) /\ video_get_mode = api.arg)

\* ------------------------------------------------------------------------
\* The text console (core 0, boot-up messages)
\* ------------------------------------------------------------------------

\* The calls are tried with these cursor positions: corners of the grids
\* of 25, 30, 50 and 60 rows, and positions outside them on one axis or both.
MoveInputs ==
    { <<0, 0>>, <<0, 79>>, <<1, 78>>, <<24, 79>>, <<28, 78>>, <<29, 79>>, <<49, 0>>,
      <<59, 79>>, <<30, 5>>, <<5, 80>>, <<60, 80>>, <<255, 255>> }

\* ... these strings: "Hi\n", "A", "\n", "\r", "ABC", a character without
\* a glyph (U+4E2D), the copyright sign of the licence text, "\n\n" ...
StrInputs ==
    { <<72, 105, 10>>, <<65>>, <<10>>, <<13>>, <<65, 66, 67>>, <<20013>>, <<169>>,
      <<10, 10>> }

\* ... and these attributes: yellow on red, blinking white on blue.
AttrInputs == { Attr_new(11, 1, FALSE), Attr_new(15, 4, TRUE) }

\* tc.set_text_buffer(&mut GLYPH_ATTR_ARRAY)
set_text_buffer ==
    /\ pc0 = "idle"
    /\ con_op.n < MaxConsoleOps
    /\ console' = [console EXCEPT !.text_buffer = "GLYPH_ATTR_ARRAY"]
    /\ con_op' = [NoOp EXCEPT !.n = con_op.n + 1, !.name = "set_text_buffer"]
    /\ UNCHANGED << modeVars, lineVars, bufVars, CLASHED_COUNT, dmaVars, int_enabled,
                    event, rl, core0Vars, histVars, GLYPH_ATTR_ARRAY,
                    TEXT_COLOUR_LOOKUP, looked_up, pixel_pairs >>

\* tc.set_attribute(attr)
set_attribute(at) ==
    /\ pc0 = "idle"
    /\ con_op.n < MaxConsoleOps
    /\ console' = [console EXCEPT !.attr = at]
    /\ con_op' = [NoOp EXCEPT !.n = con_op.n + 1, !.name = "set_attribute"]
    /\ UNCHANGED << modeVars, lineVars, bufVars, CLASHED_COUNT, dmaVars, int_enabled,
                    event, rl, core0Vars, histVars, GLYPH_ATTR_ARRAY,
                    TEXT_COLOUR_LOOKUP, looked_up, pixel_pairs >>

\* tc.move_to(row, col)
MoveTo(row, col) ==
    /\ pc0 = "idle"
    /\ con_op.n < MaxConsoleOps
    /\ console' = move_to(console, row, col, NUM_TEXT_ROWS, NUM_TEXT_COLS)
    /\ con_op' = [NoOp EXCEPT !.n = con_op.n + 1, !.name = "move_to",
                              !.row = row, !.col = col]
    /\ UNCHANGED << modeVars, lineVars, bufVars, CLASHED_COUNT, dmaVars, int_enabled,
                    event, rl, core0Vars, histVars, GLYPH_ATTR_ARRAY,
                    TEXT_COLOUR_LOOKUP, looked_up, pixel_pairs >>

\* write!(&tc, ...): one call of write_str
WriteStr(s) ==
    /\ pc0 = "idle"
    /\ con_op.n < MaxConsoleOps
    /\ LET after == write_str(console, GLYPH_ATTR_ARRAY, s, NUM_TEXT_COLS, NUM_TEXT_ROWS)
       IN  /\ console' = after.console
           /\ GLYPH_ATTR_ARRAY' = after.grid
    /\ con_op' = [NoOp EXCEPT !.n = con_op.n + 1, !.name = "write_str", !.s = s]
    /\ UNCHANGED << modeVars, lineVars, bufVars, CLASHED_COUNT, dmaVars, int_enabled,
                    event, rl, core0Vars, histVars, TEXT_COLOUR_LOOKUP, looked_up, pixel_pairs >>

\* The text modes set_video_mode accepts.
TextModeInputs == { m \in ModeInputs : ModeOk(m) }

\* The video mode is chosen, if at all, before the console is first used.
ConsoleSetVideoMode ==
    /\ con_op.n = 0
    /\ ~svm.returned
    /\ \E m \in TextModeInputs : SvmBegin(m)

NextConsole ==
    \/ ConsoleSetVideoMode
    \/ SvmStep
    \/ set_text_buffer
    \/ \E at \in AttrInputs : set_attribute(at)
    \/ \E rc \in MoveInputs : MoveTo(rc[1], rc[2])
    \/ \E s \in StrInputs : WriteStr(s)

SpecConsole == Init /\ [][NextConsole]_vars

\* This step is a call of the named TextConsole function.
ConsoleCall(name) == con_op'.n = con_op.n + 1 /\ con_op'.name = name

\* The cell at (row, col) of the visible grid.
CellAt(grid, row, col) == Cell(grid, (row * NUM_TEXT_COLS) + col)

\* C14: move_to(row, col) sets the cursor row to `row` iff row <
\* NUM_TEXT_ROWS and leaves it otherwise, sets the cursor column to `col`
\* iff col < NUM_TEXT_COLS and leaves it otherwise, clamps nothing and
\* changes no cell.
C14_MoveToPerAxis ==
    [][ ConsoleCall("move_to") =>
            LET row == con_op'.row
                col == con_op'.col
            IN  /\ console'.current_row =
                       (IF row < NUM_TEXT_ROWS THEN row ELSE console.current_row)
                /\ console'.current_col =
                       (IF col < NUM_TEXT_COLS THEN col ELSE console.current_col)
                /\ GLYPH_ATTR_ARRAY' = GLYPH_ATTR_ARRAY ]_vars

\* C14 witness: move_to(30, 5) in the 30-row mode has moved the column and
\* left the row, the cursor having been at (28, 78).
C14_Witness ==
    /\ con_op.name = "move_to"
    /\ con_op.row = 30
    /\ con_op.col = 5
    /\ NUM_TEXT_ROWS = 30
    /\ console.current_row = 28
    /\ console.current_col = 5

\* The printable ASCII characters.
PrintableAscii(ch) == ch \in 32 .. 126

\* The cursor before this step, as a grid offset.
CursorOffset == (console.current_row * NUM_TEXT_COLS) + console.current_col

\* This step is a write_str call, through a console that has a buffer, of
\* the one character ch.
WritesOneChar(ch) ==
    /\ ConsoleCall("write_str")
    /\ console.text_buffer # "null"
    /\ con_op'.s = << ch >>

\* C15: a printable character written while the cursor is in the last
\* column of a row other than the last is stored in that cell, and the
\* cursor is left at column 0 of the next row; nothing scrolls (no other
\* cell changes).
C15_LastColumnWraps ==
    [][ \A ch \in { s[1] : s \in { t \in StrInputs : Len(t) = 1 } } :
            (/\ WritesOneChar(ch)
             /\ PrintableAscii(ch)
             /\ console.current_col = NUM_TEXT_COLS - 1
             /\ console.current_row < NUM_TEXT_ROWS - 1) =>
                /\ Cell(GLYPH_ATTR_ARRAY', CursorOffset) = << ch, console.attr >>
                /\ console'.current_col = 0
                /\ console'.current_row = console.current_row + 1
                /\ \A i \in GridCells \ {CursorOffset} :
                       Cell(GLYPH_ATTR_ARRAY', i) = Cell(GLYPH_ATTR_ARRAY, i) ]_vars

\* C15 witness: 'A' was written at (0, 79); the cursor is at (1, 0).
C15_Witness ==
    /\ con_op.name = "write_str"
    /\ con_op.s = <<65>>
    /\ CellAt(GLYPH_ATTR_ARRAY, 0, 79) = << 65, console.attr >>
    /\ console.current_row = 1
    /\ console.current_col = 0
    /\ console.attr = Attr_new(11, 1, FALSE)

\* The grid scrolled up by one row: the visible rows but the last hold
\* what the rows below them held in `before`, the last row is blank.
ScrolledOnce(before, after) ==
    /\ \A r \in 0 .. (NUM_TEXT_ROWS - 2) : \A c \in 0 .. (NUM_TEXT_COLS - 1) :
           CellAt(after, r, c) = CellAt(before, r + 1, c)
    /\ \A c \in 0 .. (NUM_TEXT_COLS - 1) :
           CellAt(after, NUM_TEXT_ROWS - 1, c) = << Space, 0 >>

\* C16: a write that moves the cursor past the last row - a newline on the
\* last row, or a character written in the last column of the last row -
\* scrolls the grid by exactly one row: every row but the last then holds
\* what the row below it held, the last row holds spaces with attribute 0,
\* and the cursor row is NUM_TEXT_ROWS - 1.  Two such events ("\n\n")
\* scroll by two rows.
C16_ScrollsOneRow ==
    [][ /\ (/\ WritesOneChar(NewLine)
            /\ console.current_row = NUM_TEXT_ROWS - 1) =>
               /\ ScrolledOnce(GLYPH_ATTR_ARRAY, GLYPH_ATTR_ARRAY')
               /\ console'.current_row = NUM_TEXT_ROWS - 1
        /\ \A ch \in { s[1] : s \in { t \in StrInputs : Len(t) = 1 } } :
            (/\ WritesOneChar(ch)
             /\ PrintableAscii(ch)
             /\ console.current_row = NUM_TEXT_ROWS - 1
             /\ console.current_col = NUM_TEXT_COLS - 1) =>
                /\ ScrolledOnce(GridWrite(GLYPH_ATTR_ARRAY, CursorOffset,
                                          << ch, console.attr >>),
                                GLYPH_ATTR_ARRAY')
                /\ console'.current_row = NUM_TEXT_ROWS - 1
        /\ (/\ ConsoleCall("write_str")
            /\ console.text_buffer # "null"
            /\ con_op'.s = << NewLine, NewLine >>
            /\ console.current_row = NUM_TEXT_ROWS - 1) =>
               /\ \A r \in 0 .. (NUM_TEXT_ROWS - 3) : \A c \in 0 .. (NUM_TEXT_COLS - 1) :
                      CellAt(GLYPH_ATTR_ARRAY', r, c) = CellAt(GLYPH_ATTR_ARRAY, r + 2, c)
               /\ \A r \in (NUM_TEXT_ROWS - 2) .. (NUM_TEXT_ROWS - 1) :
                      \A c \in 0 .. (NUM_TEXT_COLS - 1) :
                          CellAt(GLYPH_ATTR_ARRAY', r, c) = << Space, 0 >>
               /\ console'.current_row = NUM_TEXT_ROWS - 1 ]_vars

\* C16 witness: in the 30-row mode "ABC" was written from (28, 78) and then
\* a newline on row 29: the grid has scrolled, "AB" is at the end of row 27,
\* the 'C' at the start of row 28, and row 29 is blank.
C16_Witness ==
    /\ NUM_TEXT_ROWS = 30
    /\ con_op.name = "write_str"
    /\ con_op.s = <<10>>
    /\ GlyphAttr_glyph(CellAt(GLYPH_ATTR_ARRAY, 27, 78)) = 65
    /\ GlyphAttr_glyph(CellAt(GLYPH_ATTR_ARRAY, 27, 79)) = 66
    /\ GlyphAttr_glyph(CellAt(GLYPH_ATTR_ARRAY, 28, 0)) = 67
    /\ CellAt(GLYPH_ATTR_ARRAY, 29, 0) = << Space, 0 >>
    /\ CellAt(GLYPH_ATTR_ARRAY, 29, 79) = << Space, 0 >>
    /\ console.current_row = 29
    /\ console.current_col = 0

\* C17: an ASCII string of n printable characters written from cursor
\* (r, c) without a scroll leaves, in the n cells that follow (r, c) in
\* row-major order, the characters' codes as glyphs with the console's
\* attribute byte, and leaves every other cell of the grid as it was.
C17_StringRoundTrip ==
    [][ \A s \in { t \in StrInputs : \A k \in 1 .. Len(t) : PrintableAscii(t[k]) } :
            (/\ ConsoleCall("write_str")
             /\ console.text_buffer # "null"
             /\ con_op'.s = s
             /\ CursorOffset + Len(s) < NUM_TEXT_ROWS * NUM_TEXT_COLS) =>
                \A i \in GridCells :
                    Cell(GLYPH_ATTR_ARRAY', i) =
                        IF i >= CursorOffset /\ i < CursorOffset + Len(s)
                        THEN << s[(i - CursorOffset) + 1], console.attr >>
                        ELSE Cell(GLYPH_ATTR_ARRAY, i) ]_vars

\* C17 witness: "ABC" was written from (1, 78) in yellow on red; it runs
\* over the end of row 1 into row 2.
C17_Witness ==
    /\ con_op.name = "write_str"
    /\ con_op.s = <<65, 66, 67>>
    /\ CellAt(GLYPH_ATTR_ARRAY, 1, 78) = << 65, Attr_new(11, 1, FALSE) >>
    /\ CellAt(GLYPH_ATTR_ARRAY, 1, 79) = << 66, Attr_new(11, 1, FALSE) >>
    /\ CellAt(GLYPH_ATTR_ARRAY, 2, 0) = << 67, Attr_new(11, 1, FALSE) >>
    /\ console.current_row = 2
    /\ console.current_col = 1

PixelsInputs == {0, 1, 2, 3, 7, 255}

\* TEXT_COLOUR_LOOKUP.init(&VIDEO_PALETTE)
ColourLookupInit ==
    /\ looked_up.written = 0
    /\ LET filled == TextColourLookup_init(TEXT_COLOUR_LOOKUP, VIDEO_PALETTE)
       IN  /\ TEXT_COLOUR_LOOKUP' = filled.entries
           /\ looked_up' = [looked_up EXCEPT !.written = filled.written]
    /\ UNCHANGED << modeVars, lineVars, bufVars, CLASHED_COUNT, dmaVars, int_enabled,
                    event, rl, core0Vars, histVars, console, GLYPH_ATTR_ARRAY, con_op,
                    pixel_pairs >>

\* TEXT_COLOUR_LOOKUP.lookup(Attr::new(fg, bg, blink), pixels), once the
\* table is filled
ColourLookup(fg, bg, blink, px) ==
    /\ looked_up.written # 0
    /\ looked_up' = [ fg |-> fg, bg |-> bg, blink |-> blink, pixels |-> px,
                      pair |-> lookup(TEXT_COLOUR_LOOKUP, Attr_new(fg, bg, blink), px),
                      written |-> looked_up.written ]
    /\ UNCHANGED << modeVars, lineVars, bufVars, CLASHED_COUNT, dmaVars, int_enabled,
                    event, rl, core0Vars, histVars, console, GLYPH_ATTR_ARRAY, con_op,
                    TEXT_COLOUR_LOOKUP, pixel_pairs >>

NextColour ==
    \/ ColourLookupInit
    \/ \E fg \in 0 .. 15, bg \in 0 .. 7, blink \in BOOLEAN, px \in PixelsInputs :
           ColourLookup(fg, bg, blink, px)

SpecColour == InitColour /\ [][NextColour]_vars

\* C19: TextColourLookup::init stores to all 512 entries, and after it
\* lookup(Attr(fg, bg), p), for fg in 0..16, bg in 0..8 and p in 0..4, is the
\* pair whose first pixel (low 16 bits) is the palette colour of fg if bit 1
\* of p is set and of bg otherwise, and whose second pixel (high 16 bits) is
\* the palette colour of fg if bit 0 of p is set and of bg otherwise,
\* whatever the blink bit.
C19_LookupIsPaletteLookup ==
    /\ [][ (looked_up.written = 0 /\ looked_up'.written # 0) =>
               /\ looked_up'.written = 512
               /\ Cardinality(DOMAIN TEXT_COLOUR_LOOKUP') = 512 ]_vars
    /\ [][ (/\ looked_up.written # 0
            /\ looked_up' # looked_up
            /\ looked_up'.pixels \in 0 .. 3) =>
               LET l == looked_up'
               IN  /\ FirstPixel(l.pair) =
                          VIDEO_PALETTE[(IF l.pixels \in {2, 3} THEN l.fg ELSE l.bg) + 1]
                   /\ SecondPixel(l.pair) =
                          VIDEO_PALETTE[(IF l.pixels \in {1, 3} THEN l.fg ELSE l.bg) + 1] ]_vars

\* C19 witness: after init, blinking bright yellow (11) on dark red (1)
\* with pattern 0b10 gave bright yellow (0x0ff) first and dark red (0x008)
\* second.
C19_Witness ==
    /\ looked_up.written = 512
    /\ looked_up.fg = 11
    /\ looked_up.bg = 1
    /\ looked_up.blink
    /\ looked_up.pixels = 2
    /\ FirstPixel(looked_up.pair) = 255
    /\ SecondPixel(looked_up.pair) = 8

\* ------------------------------------------------------------------------
\* render_scanline on text
\* ------------------------------------------------------------------------

\* The video mode is 640x480 with either font, chosen before the console
\* is first used.
RenderModeInputs == { m \in TextModeInputs : m.timing = "T640x480" }

RenderSetVideoMode ==
    /\ con_op.n = 0
    /\ ~svm.returned
    /\ \E m \in RenderModeInputs : SvmBegin(m)

\* A new console is given the grid and an attribute and writes "A",
\* "Hi\nB" or "  \nA" ...
RenderStrInputs == { <<65>>, <<72, 105, 10, 66>>, <<Space, Space, 10, 65>> }

RenderAttrInputs == AttrInputs \cup { Attr_new(WHITE, BLACK, FALSE) }

\* ... before the first pixel interrupt is raised.
VideoIdle == pixel_irqs = 0 /\ ints0 = {}

\* TextConsole::new(), set_text_buffer(&mut GLYPH_ATTR_ARRAY),
\* set_attribute(at), write_str(s)
RenderText(at, s) ==
    /\ pc0 = "idle"
    /\ VideoIdle
    /\ con_op.n = 0
    /\ LET tc == [TextConsole_new EXCEPT !.text_buffer = "GLYPH_ATTR_ARRAY", !.attr = at]
           after == write_str(tc, GLYPH_ATTR_ARRAY, s, NUM_TEXT_COLS, NUM_TEXT_ROWS)
       IN  /\ console' = after.console
           /\ GLYPH_ATTR_ARRAY' = after.grid
    /\ con_op' = [NoOp EXCEPT !.n = 1, !.name = "write_str", !.s = s]
    /\ UNCHANGED << modeVars, lineVars, bufVars, CLASHED_COUNT, dmaVars, int_enabled,
                    event, rl, core0Vars, histVars, TEXT_COLOUR_LOOKUP, looked_up, pixel_pairs >>

RenderIrq == CURRENT_PLAYOUT_LINE < MaxRenderLine /\ Irq

NextRender ==
    \/ RenderSetVideoMode
    \/ SvmStep
    \/ \E at \in RenderAttrInputs, s \in RenderStrInputs : RenderText(at, s)
    \/ PixelDmaComplete
    \/ RenderIrq
    \/ RenderStep

SpecRender == Init /\ [][NextRender]_vars

\* Bit n of a byte.
Bit(byte, n) == (byte \div (2 ^ n)) % 2

\* render_scanline reaches render_scanline_text::<80>.
RendersText80 == rl.pc = "draw" /\ rl'.pc = "done" /\ rl.cols = 80

\* What the claim expects at pair k of a cell whose font byte is `byte`:
\* the look-up entry for the attribute of the cell and bits 7-2k and 6-2k.
ExpectedPair(cell, byte, k) ==
    LET bits == (2 * Bit(byte, 7 - (2 * k))) + Bit(byte, 6 - (2 * k))
    IN  lookup(TEXT_COLOUR_LOOKUP, GlyphAttr_attr(cell), bits)

\* The pair of two pixels of the background colour of a cell.
BackgroundPair(cell) ==
    LET colour == PaletteColour(VIDEO_PALETTE, GlyphAttr_attr(cell) % 8)
    IN  RGBPair_new(colour, colour)

\* C20: when render_scanline has loaded the tag N of its buffer and draws
\* it in 80 columns with a font H = 8 or 16 rows high, every pair 4c + k
\* of the 320 pairs of the buffer becomes the look-up entry for the
\* attribute of cell (N div H, c) and bits 7-2k and 6-2k of the byte of
\* row N mod H of that cell's glyph; where that byte is zero the four
\* pairs are two pixels of the cell's background colour.
C20_RenderScanlineText ==
    [][ RendersText80 =>
            LET N == rl.line
                H == IF rl.format = "Text8x16" THEN 16 ELSE 8
                text_row == N \div H
                font_row == N % H
                after == pixel_pairs'[rl.buf]
            IN  \A c \in 0 .. 79 :
                    LET cell == Cell(GLYPH_ATTR_ARRAY, (text_row * 80) + c)
                        byte == FontData(rl.format, (font_row * 256) + GlyphAttr_glyph(cell))
                    IN  \A k \in 0 .. 3 :
                            LET pair == PairAt(after, (4 * c) + k)
                            IN  /\ pair = ExpectedPair(cell, byte, k)
                                /\ byte = 0 => pair = BackgroundPair(cell)
      ]_vars

\* Line 8 or 9 of the 8-row font has been drawn from a grid whose row 0
\* starts with two spaces on blue and whose row 1 starts with "A" in
\* white on blue: the first four pairs show the bits of the glyph, the
\* cells after it are GlyphAttr(0) and come out black.
C20_Witness ==
    /\ rl.pc = "done"
    /\ rl.cols = 80
    /\ rl.format = "Text8x8"
    /\ rl.line \div 8 = 1
    /\ Cell(GLYPH_ATTR_ARRAY, 0) = GlyphAttr_new(Space, Attr_new(15, 4, TRUE))
    /\ Cell(GLYPH_ATTR_ARRAY, 80) = GlyphAttr_new(65, Attr_new(15, 4, TRUE))
    /\ \E k \in 0 .. 3 :
           PairAt(pixel_pairs[rl.buf], k) =
               RGBPair_new(PaletteColour(VIDEO_PALETTE, 15), PaletteColour(VIDEO_PALETTE, 4))
    /\ \A o \in 4 .. 319 : PairAt(pixel_pairs[rl.buf], o) = RGBPair_new(0, 0)

\* ------------------------------------------------------------------------
\* render_scanline after a mode change late in the frame
\* ------------------------------------------------------------------------

\* set_video_mode is called once, with a text mode, while line
\* LateModeLine of the 640x480 boot mode plays out ...
LateSetVideoMode ==
    /\ CURRENT_PLAYOUT_LINE = LateModeLine
    /\ ~svm.returned
    /\ \E m \in TextModeInputs : SvmBegin(m)

\* ... and the pixel interrupts go on until the line after it.
LateIrq ==
    /\ CURRENT_PLAYOUT_LINE <= LateModeLine + 1
    /\ svm.returned => CURRENT_PLAYOUT_LINE >= LateModeLine
    /\ Irq

NextLate == PixelDmaComplete \/ LateIrq \/ RenderStep \/ LateSetVideoMode \/ SvmStep

SpecLate == Init /\ [][NextLate]_vars

\* render_scanline returns at `if text_row >= num_rows`.
RenderSkipsLine == rl.pc = "line" /\ rl'.pc = "poll"

\* C21 as stated: when the line number of the buffer maps to a text row at
\* or beyond the row count, render_scanline writes no pixel and clears
\* ready_for_drawing of the buffer.
C21_BlankLineMarkedDone ==
    [][ RenderSkipsLine =>
            /\ pixel_pairs' = pixel_pairs
            /\ pixels' = pixels
            /\ ~ready_for_drawing'[rl.buf] ]_vars

\* ------------------------------------------------------------------------
\* render_scanline with an unsupported width
\* ------------------------------------------------------------------------

\* NUM_TEXT_COLS is a public atomic: before the first pixel interrupt it
\* is stored with a width no video mode has, or with 40.
ColsInputs == {0, 40, 132}

StoreTextCols(n) ==
    /\ pc0 = "idle"
    /\ VideoIdle
    /\ NUM_TEXT_COLS = MAX_TEXT_COLS
    /\ NUM_TEXT_COLS' = n
    /\ UNCHANGED << VIDEO_MODE, TIMING_BUFFER, NUM_TEXT_ROWS, textVars, lineVars, bufVars,
                    CLASHED_COUNT, dmaVars, int_enabled, event, rl, core0Vars, histVars >>

NextCols ==
    \/ \E n \in ColsInputs : StoreTextCols(n)
    \/ PixelDmaComplete
    \/ RenderIrq
    \/ RenderStep

SpecCols == Init /\ [][NextCols]_vars

\* render_scanline holds a width that is neither 40 nor 80.
UnsupportedCols == rl.cols \notin {40, 80}

\* C22: with a width that is neither 40 nor 80, render_scanline gets
\* through `match num_cols` without writing any pixel of the buffer, goes
\* on to mark_rendering_done (it does not stop there), and clears
\* ready_for_drawing of the buffer.
C22_UnsupportedColsBlank ==
    /\ [][ (rl.pc = "draw" /\ UnsupportedCols /\ rl' # rl) =>
               /\ pixel_pairs' = pixel_pairs
               /\ pixels' = pixels
               /\ rl'.pc = "done"
               /\ rl'.buf = rl.buf ]_vars
    /\ [][ (rl.pc = "done" /\ UnsupportedCols /\ rl' # rl) =>
               /\ ~ready_for_drawing'[rl.buf]
               /\ pixel_pairs' = pixel_pairs
               /\ pixels' = pixels ]_vars

\* C22 witness: with NUM_TEXT_COLS = 0 a buffer was handed to the Render
\* Loop for line 3 and has been marked done with nothing rendered into
\* it.
C22_Witness ==
    \E b \in Buffers :
        /\ NUM_TEXT_COLS = 0
        /\ line_number[b] = 3
        /\ ~ready_for_drawing[b]
        /\ pixels[b] = Garbage
        /\ pixel_pairs[b] = BlankPixels
        /\ rl = RlAt(OtherBuffer(b))

\* ------------------------------------------------------------------------
\* TextConsole::set_text_buffer
\* ------------------------------------------------------------------------

\* C23 as stated: set_text_buffer resets the cursor to row 0, column 0 and
\* changes no cell of the buffer.
C23_SetTextBufferResetsCursor ==
    [][ ConsoleCall("set_text_buffer") =>
            /\ console'.current_row = 0
            /\ console'.current_col = 0
            /\ GLYPH_ATTR_ARRAY' = GLYPH_ATTR_ARRAY ]_vars

\* ------------------------------------------------------------------------
\* The handoff of a scan-line buffer to the Render Loop and back
\* ------------------------------------------------------------------------

\* This step writes pixels of buffer b.
WritesPixels(b) == pixels'[b] # pixels[b] \/ pixel_pairs'[b] # pixel_pairs[b]

\* C24: the Render Loop goes past its wait on a buffer only on seeing
\* ready_for_drawing == true on it (seeing false it waits), stays with that
\* buffer until it returns, loads line_number after that and before it
\* draws, draws only then and only into that buffer, and only after
\* drawing clears the flag; nothing else writes pixels or clears a flag.
C24_HandoffOrder ==
    /\ [][ (rl.pc = "poll" /\ rl' # rl) =>
               /\ rl'.buf = rl.buf
               /\ rl'.pc = IF ready_for_drawing[rl.buf] THEN "format" ELSE "wfe" ]_vars
    /\ [][ (rl'.pc = "format" /\ rl.pc # "format") => rl.pc = "poll" ]_vars
    /\ [][ (rl'.buf # rl.buf) => rl'.pc = "poll" ]_vars
    /\ [][ (rl'.pc = "draw" /\ rl.pc # "draw") =>
               /\ rl.pc = "line"
               /\ rl'.line = line_number[rl.buf] ]_vars
    /\ [][ \A b \in Buffers : WritesPixels(b) =>
               /\ rl.pc = "draw"
               /\ rl.buf = b
               /\ rl'.pc = "done"
               /\ pixels'[b] = rl.line ]_vars
    /\ [][ (rl'.pc = "done" /\ rl.pc # "done") => rl.pc = "draw" ]_vars
    /\ [][ \A b \in Buffers : (ready_for_drawing[b] /\ ~ready_for_drawing'[b]) =>
               /\ rl.pc = "done"
               /\ rl.buf = b
               /\ UNCHANGED << pixels, pixel_pairs >> ]_vars

\* C24 witness: the Render Loop has drawn line 5 into the buffer tagged 5
\* and is about to clear its flag.
C24_Witness ==
    /\ rl.pc = "done"
    /\ rl.line = 5
    /\ line_number[rl.buf] = 5
    /\ pixels[rl.buf] = 5
    /\ ready_for_drawing[rl.buf]

\* ------------------------------------------------------------------------
\* The pixel-start trigger in the timing words
\* ------------------------------------------------------------------------

\* The PIO instruction a timing word carries: its upper 16 bits.
Instruction(word) == word[1]

\* The words of a ScanlineTimingBuffer that carry IRQ 0 (0xc000).
TriggerWords(buffer) == { i \in 1 .. 4 : Instruction(buffer[i]) = 49152 }

\* The words that carry the no-op (0xa042).
NoOpWords(buffer) == { i \in 1 .. 4 : Instruction(buffer[i]) = 41026 }

\* C25: in the TimingBuffer of either mode the visible-line buffer carries
\* IRQ 0 in its fourth word and the no-op in the first three, the porch
\* and sync buffers carry the no-op in all four; so the buffer the timing
\* DMA plays for a line holds one trigger if the line is visible and none
\* during vertical blanking.
C25_TriggerOnlyInVisibleWord ==
    /\ TriggerWords(TIMING_BUFFER.visible_line) = {4}
    /\ NoOpWords(TIMING_BUFFER.visible_line) = {1, 2, 3}
    /\ NoOpWords(TIMING_BUFFER.vblank_porch_buffer) = {1, 2, 3, 4}
    /\ NoOpWords(TIMING_BUFFER.vblank_sync_buffer) = {1, 2, 3, 4}
    /\ Cardinality(TriggerWords(TIMING_BUFFER[timing_read_addr])) =
           IF CURRENT_TIMING_LINE <= TIMING_BUFFER.visible_lines_ends_at THEN 1 ELSE 0

\* C25 witness: 640x400, the first line of the back porch: the porch
\* buffer is played and carries no trigger, the visible one carries one.
C25_Witness ==
    /\ VIDEO_MODE.timing = "T640x400"
    /\ TIMING_BUFFER = make_640x400
    /\ CURRENT_TIMING_LINE = 414
    /\ timing_read_addr = "vblank_porch_buffer"
    /\ TriggerWords(TIMING_BUFFER.vblank_porch_buffer) = {}
    /\ TriggerWords(TIMING_BUFFER.visible_line) = {4}

\* ------------------------------------------------------------------------
\* The length of a scan line
\* ------------------------------------------------------------------------

\* The period make_timing was given for a word: bits 15..2 hold period - 6.
Period(word) == (word[2] \div 4) + 6

Periods(buffer) == << Period(buffer[1]), Period(buffer[2]), Period(buffer[3]),
                      Period(buffer[4]) >>

LineLength(buffer) ==
    Period(buffer[1]) + Period(buffer[2]) + Period(buffer[3]) + Period(buffer[4])

\* C26: in the TimingBuffer of either mode the four periods of the
\* visible-line, porch and sync buffers each sum to 8000 clocks: 160, 960,
\* 480 and 6400 on the blanking lines, 160, 960, 475 and 6405 on the
\* visible lines.
C26_LineLength ==
    /\ LineLength(TIMING_BUFFER.visible_line) = 8000
    /\ LineLength(TIMING_BUFFER.vblank_porch_buffer) = 8000
    /\ LineLength(TIMING_BUFFER.vblank_sync_buffer) = 8000
    /\ Periods(TIMING_BUFFER.visible_line) = <<160, 960, 475, 6405>>
    /\ Periods(TIMING_BUFFER.vblank_porch_buffer) = <<160, 960, 480, 6400>>
    /\ Periods(TIMING_BUFFER.vblank_sync_buffer) = <<160, 960, 480, 6400>>

\* C26 witness: 640x400 is set and a visible line of 8000 clocks is played.
C26_Witness ==
    /\ VIDEO_MODE.timing = "T640x400"
    /\ TIMING_BUFFER = make_640x400
    /\ CURRENT_TIMING_LINE = 100
    /\ timing_read_addr = "visible_line"
    /\ LineLength(TIMING_BUFFER[timing_read_addr]) = 8000

\* ------------------------------------------------------------------------
\* A Render Loop that is never late
\* ------------------------------------------------------------------------

\* The Render Loop can take no step: it sleeps in wfe with no event pending.
RenderAsleep == rl.pc = "wfe" /\ ~event

\* Rendering is faster than the scan line: irq() runs only when the Render
\* Loop has finished whatever it could start.
FastIrq == RenderAsleep /\ Irq

NextFast == PixelDmaComplete \/ FastIrq \/ RenderStep \/ BootSetVideoMode \/ SvmStep

SpecFast == Init /\ [][NextFast]_vars

\* C27 as stated: with a Render Loop that is never late, no pixel
\* interrupt after the second one increments CLASHED_COUNT.
C27_NoClashWhenFast ==
    [][ (PixelIrqHandled /\ pixel_irqs >= 2) => CLASHED_COUNT' = CLASHED_COUNT ]_vars

\* C28 as stated: a buffer that has been rendered and whose
\* ready_for_drawing flag is false holds the rendering of the line its
\* line_number tag names.
C28_DoneBufferHoldsTaggedLine ==
    \A b \in Buffers :
        (~ready_for_drawing[b] /\ pixels[b] # Garbage) => pixels[b] = line_number[b]

\* ------------------------------------------------------------------------
\* Fair scheduling of core 1 and of the pixel channel
\* ------------------------------------------------------------------------

\* The pixel part of irq() with a CLASHED_COUNT that stops counting at
\* MaxClashes, so that the handler can run for ever.
IrqPixelPartSaturating ==
    IF PIXEL_DMA_CHAN \in ints0
    THEN LET last_playout_line == CURRENT_PLAYOUT_LINE
             next_playout_line == NextPlayoutLine(last_playout_line, TIMING_BUFFER)
             next_draw_line == NextDrawLine(next_playout_line, TIMING_BUFFER)
             queue == BufferToQueue(last_playout_line)
             release == BufferToRelease(last_playout_line)
             clash == ClashDetected(queue)
         IN  /\ CLASHED_COUNT' = IF clash /\ CLASHED_COUNT < MaxClashes
                                  THEN CLASHED_COUNT + 1 ELSE CLASHED_COUNT
             /\ pixel_read_addr' = queue
             /\ line_number' = [line_number EXCEPT ![release] = next_draw_line]
             /\ ready_for_drawing' = [ready_for_drawing EXCEPT ![release] = TRUE]
             /\ CURRENT_PLAYOUT_LINE' = next_playout_line
             /\ queued_was_ready' = clash
             /\ pixel_irqs' = IF pixel_irqs < 2 THEN pixel_irqs + 1 ELSE pixel_irqs
             /\ wfl' = IF pc0 = "wfl" THEN [wfl EXCEPT !.irqs = @ + 1] ELSE wfl
    ELSE UNCHANGED << CLASHED_COUNT, pixel_read_addr, line_number, ready_for_drawing,
                      CURRENT_PLAYOUT_LINE, queued_was_ready, pixel_irqs, wfl >>

\* One run of irq(), ending with sev.
LiveIrq ==
    /\ int_enabled
    /\ ints0 # {}
    /\ IrqTimingPart
    /\ IrqPixelPartSaturating
    /\ ints0' = {}
    /\ dma_busy' = dma_busy \cup ints0
    /\ event' = TRUE
    /\ UNCHANGED << textVars, modeVars, pixels, int_enabled, rl, pc0, svm, api >>

\* Core 1 falls no further behind than one wake-up: irq() runs again only
\* after core 1 has taken the event of the previous run. It may run at any
\* point of render_scanline, the gap between the flag test and wfe included.
WokenIrq == ~event /\ LiveIrq

NextLive == PixelDmaComplete \/ WokenIrq \/ RenderStep

\* Core 1 keeps running, the pixel channel keeps completing, and a raised
\* interrupt is served.
FairLive == WF_vars(RenderStep) /\ WF_vars(PixelDmaComplete) /\ WF_vars(WokenIrq)

SpecLive == Init /\ [][NextLive]_vars /\ FairLive

set_ready_store_FlagFirst(step, b, line) ==
    IF step = 1
    THEN /\ ready_for_drawing' = [ready_for_drawing EXCEPT ![b] = TRUE]
         /\ UNCHANGED line_number
    ELSE /\ line_number' = [line_number EXCEPT ![b] = line]
         /\ UNCHANGED ready_for_drawing

\* The two stores of set_ready: line_number, then ready_for_drawing.
set_ready_store(step, b, line) ==
    IF step = 1
    THEN /\ line_number' = [line_number EXCEPT ![b] = line]
         /\ UNCHANGED ready_for_drawing
    ELSE /\ ready_for_drawing' = [ready_for_drawing EXCEPT ![b] = TRUE]
         /\ UNCHANGED line_number

\* The line irq() passes to set_ready after playout line `last`.
DrawLineAfter(last) == NextDrawLine(NextPlayoutLine(last, TIMING_BUFFER), TIMING_BUFFER)

\* irq() for the pixel channel, from its entry to the first store of
\* set_ready. Core 0 is in no other call, so pc0 holds the handler's place.
IrqToSetReady ==
    /\ int_enabled
    /\ pc0 = "idle"
    /\ ints0 = {PIXEL_DMA_CHAN}
    /\ LET last_playout_line == CURRENT_PLAYOUT_LINE
           queue == BufferToQueue(last_playout_line)
           clash == ClashDetected(queue)
       IN  /\ clash => CLASHED_COUNT < MaxClashes
           /\ CLASHED_COUNT' = IF clash THEN CLASHED_COUNT + 1 ELSE CLASHED_COUNT
           /\ pixel_read_addr' = queue
           /\ queued_was_ready' = clash
           /\ set_ready_store(1, BufferToRelease(last_playout_line),
                              DrawLineAfter(last_playout_line))
    /\ pc0' = "set_ready"
    /\ UNCHANGED << textVars, modeVars, lineVars, pixels, ints0, timing_read_addr, dma_busy,
                    int_enabled, event, rl, svm, api, wfl, pixel_irqs >>

\* ... and from the second store of set_ready to sev.
IrqFromSetReady ==
    /\ pc0 = "set_ready"
    /\ LET last_playout_line == CURRENT_PLAYOUT_LINE
       IN  /\ set_ready_store(2, BufferToRelease(last_playout_line),
                              DrawLineAfter(last_playout_line))
           /\ CURRENT_PLAYOUT_LINE' = NextPlayoutLine(last_playout_line, TIMING_BUFFER)
    /\ pixel_irqs' = IF pixel_irqs < 2 THEN pixel_irqs + 1 ELSE pixel_irqs
    /\ ints0' = {}
    /\ dma_busy' = dma_busy \cup ints0
    /\ event' = TRUE
    /\ pc0' = "idle"
    /\ UNCHANGED << textVars, modeVars, CURRENT_TIMING_LINE, pixels, CLASHED_COUNT,
                    timing_read_addr, pixel_read_addr, int_enabled, rl, svm, api, wfl,
                    queued_was_ready >>

NextReady == PixelDmaComplete \/ IrqToSetReady \/ IrqFromSetReady \/ RenderStep

SpecReady == Init /\ [][NextReady]_vars

\* A set_ready call on b has made its first store and not yet its second.
InSetReady(b) == pc0 = "set_ready" /\ b = BufferToRelease(CURRENT_PLAYOUT_LINE)

\* The line passed to the latest set_ready call on b that has begun: the
\* call in progress, else the call of the last interrupt (on the buffer
\* that is not streaming), else the call of the interrupt before.
LatestSetReadyLine(b) ==
    IF InSetReady(b) THEN DrawLineAfter(CURRENT_PLAYOUT_LINE)
    ELSE IF b = BufferToQueue(CURRENT_PLAYOUT_LINE)
         THEN NextDrawLine(CURRENT_PLAYOUT_LINE, TIMING_BUFFER)
         ELSE CURRENT_PLAYOUT_LINE

\* This step is render_scanline's load of line_number.
RenderLoadsLine == rl.pc = "line" /\ rl' # rl

\* C30: the line_number render_scanline loads after it has seen
\* ready_for_drawing == true is the one written by the latest set_ready call
\* on that buffer, the call that raised the flag or a later one, never
\* an older value.
C30_LineNumberNotStale ==
    [][ RenderLoadsLine => line_number[rl.buf] = LatestSetReadyLine(rl.buf) ]_vars

\* render_scanline is about to load line_number while a set_ready call on
\* the same buffer is between its two stores.
C30_Witness ==
    rl.pc = "line" /\ InSetReady(rl.buf) /\ ready_for_drawing[rl.buf]

\* ------------------------------------------------------------------------
\* The two sequencer counters side by side
\* ------------------------------------------------------------------------

\* Both DMA channels are clocked by the timing state machine: the pixels of
\* playout line p stream while the timing words of line p play. The two
\* channels drift apart by MaxDrift lines at most.
SeqTimingDmaComplete ==
    /\ \/ CURRENT_TIMING_LINE > TIMING_BUFFER.visible_lines_ends_at
       \/ CURRENT_TIMING_LINE < CURRENT_PLAYOUT_LINE + MaxDrift
    /\ TimingDmaComplete

SeqPixelDmaComplete ==
    /\ CURRENT_PLAYOUT_LINE <= CURRENT_TIMING_LINE
    /\ CURRENT_TIMING_LINE <= CURRENT_PLAYOUT_LINE + MaxDrift
    /\ PixelDmaComplete

NextSeq ==
    \/ SeqTimingDmaComplete
    \/ SeqPixelDmaComplete
    \/ LiveIrq
    \/ BootSetVideoMode
    \/ SvmStep

SpecSeq == Init /\ [][NextSeq]_vars

\* The visible line count of the mode in force.
VisibleLineCount == TIMING_BUFFER.visible_lines_ends_at + 1

\* C31: a run of irq() for the timing channel alone leaves
\* CURRENT_PLAYOUT_LINE, the flags, the line_number tags and CLASHED_COUNT
\* unchanged; a run for the pixel channel alone leaves CURRENT_TIMING_LINE
\* unchanged; every run for the pixel channel advances CURRENT_PLAYOUT_LINE
\* by one modulo the visible line count, and every run for the timing
\* channel advances CURRENT_TIMING_LINE whatever the pixel channel does.
C31_CountersIndependent ==
    /\ [][ (TimingIrqHandled /\ ~PixelIrqHandled) =>
               UNCHANGED << CURRENT_PLAYOUT_LINE, ready_for_drawing, line_number,
                            CLASHED_COUNT >> ]_vars
    /\ [][ (PixelIrqHandled /\ ~TimingIrqHandled) => UNCHANGED CURRENT_TIMING_LINE ]_vars
    /\ [][ PixelIrqHandled =>
               CURRENT_PLAYOUT_LINE' = (CURRENT_PLAYOUT_LINE + 1) % VisibleLineCount ]_vars
    /\ [][ TimingIrqHandled =>
               CURRENT_TIMING_LINE' = NextTimingLine(CURRENT_TIMING_LINE, TIMING_BUFFER) ]_vars

\* Both counters have wrapped at their own ends: the timing line is in
\* the back porch of a later frame than the one the playout line left.
C31_Witness ==
    /\ CURRENT_PLAYOUT_LINE = 0
    /\ CURRENT_TIMING_LINE = TIMING_BUFFER.back_porch_ends_at
    /\ line_number["ODD"] = 1
    /\ ready_for_drawing["ODD"]

\* The parity of the lines a buffer is for.
ParityOf(b) == IF b = "EVEN" THEN 0 ELSE 1

\* C32: every line_number set_ready stores into the even buffer is even,
\* every one stored into the odd buffer is odd, and none is beyond
\* visible_lines_ends_at, the wrap to line 0 included.
C32_StoredLineParity ==
    [][ \A b \in Buffers :
            (line_number'[b] # line_number[b] \/ (~ready_for_drawing[b] /\ ready_for_drawing'[b]))
                => /\ line_number'[b] % 2 = ParityOf(b)
                   /\ line_number'[b] <= TIMING_BUFFER.visible_lines_ends_at ]_vars

\* The last visible line is about to play and the even buffer has been
\* released for line 0 of the next frame.
C32_Witness ==
    /\ CURRENT_PLAYOUT_LINE = TIMING_BUFFER.visible_lines_ends_at
    /\ line_number["EVEN"] = 0
    /\ line_number["ODD"] = TIMING_BUFFER.visible_lines_ends_at
    /\ ready_for_drawing["EVEN"]

\* ------------------------------------------------------------------------
\* The sync bits of the timing words
\* ------------------------------------------------------------------------

\* Bit 0 of a timing word drives the H-sync pin, bit 1 the V-sync pin.
HSyncBit(word) == word[2] % 2

VSyncBit(word) == (word[2] \div 2) % 2

\* The pin levels C33 states as active: H-sync low in both modes, V-sync
\* low at 640x480 and high at 640x400.
ClaimedHSyncActive(timing) == 0

ClaimedVSyncActive(timing) == IF timing = "T640x480" THEN 0 ELSE 1

\* The timing line being played is one of the sync-pulse lines.
InSyncPulse ==
    /\ CURRENT_TIMING_LINE > TIMING_BUFFER.front_porch_end_at
    /\ CURRENT_TIMING_LINE <= TIMING_BUFFER.sync_pulse_ends_at

\* C33: outside a mode change, the buffer played for a line has V-sync
\* active in all four words if the line is one of the two sync-pulse lines
\* and inactive in all four otherwise, and H-sync active in its second word
\* only; H-sync is active-low, V-sync active-low at 640x480 and active-high
\* at 640x400.
C33_SyncBits ==
    ~SvmUpdating =>
        LET played == TIMING_BUFFER[timing_read_addr]
            h == ClaimedHSyncActive(VIDEO_MODE.timing)
            v == ClaimedVSyncActive(VIDEO_MODE.timing)
        IN  /\ TIMING_BUFFER.sync_pulse_ends_at - TIMING_BUFFER.front_porch_end_at = 2
            /\ \A i \in 1 .. 4 :
                   /\ VSyncBit(played[i]) = IF InSyncPulse THEN v ELSE 1 - v
                   /\ HSyncBit(played[i]) = IF i = 2 THEN h ELSE 1 - h

\* 640x400, the second sync-pulse line: V-sync is high in every word.
C33_Witness ==
    /\ VIDEO_MODE.timing = "T640x400"
    /\ CURRENT_TIMING_LINE = 413
    /\ timing_read_addr = "vblank_sync_buffer"
    /\ \A i \in 1 .. 4 : VSyncBit(TIMING_BUFFER[timing_read_addr][i]) = 1
    /\ HSyncBit(TIMING_BUFFER[timing_read_addr][2]) = 0

\* ------------------------------------------------------------------------
\* The bounds of the text console
\* ------------------------------------------------------------------------

\* The offsets of the cells of the visible text grid.
VisibleCells == 0 .. (NUM_TEXT_ROWS * NUM_TEXT_COLS - 1)

\* C34: with the mode chosen before the console is used, after any sequence
\* of move_to, set_attribute and write_str calls the cursor is inside the
\* visible grid and every cell written or blanked lies at an offset below
\* NUM_TEXT_ROWS * NUM_TEXT_COLS.
C34_ConsoleInBounds ==
    /\ console.current_row < NUM_TEXT_ROWS
    /\ console.current_col < NUM_TEXT_COLS
    /\ DOMAIN GLYPH_ATTR_ARRAY \subseteq VisibleCells

\* write_str has written past the last cell of the grid: the screen has
\* scrolled, the last row was blanked and now holds two more glyphs.
C34_Witness ==
    /\ console.text_buffer # "null"
    /\ con_op.name = "write_str"
    /\ console.current_row = NUM_TEXT_ROWS - 1
    /\ console.current_col = 2
    /\ Cell(GLYPH_ATTR_ARRAY, NUM_TEXT_ROWS * NUM_TEXT_COLS - 1) = GlyphAttr_new(Space, 0)
    /\ Cell(GLYPH_ATTR_ARRAY, (NUM_TEXT_ROWS - 1) * NUM_TEXT_COLS - 1) # GlyphAttr0

\* The console with set_video_mode called between its calls.
ResizeSetVideoMode ==
    /\ con_op.n < MaxConsoleOps
    /\ \E m \in TextModeInputs : SvmBegin(m)

\* The cursor positions and strings tried around a change of mode.
ResizeMoveInputs == { <<59, 79>>, <<29, 0>> }

ResizeStrInputs == { <<10>>, <<65>> }

NextResize ==
    \/ ResizeSetVideoMode
    \/ SvmStep
    \/ set_text_buffer
    \/ \E rc \in ResizeMoveInputs : MoveTo(rc[1], rc[2])
    \/ \E s \in ResizeStrInputs : WriteStr(s)

SpecResize == Init /\ [][NextResize]_vars

\* C35 as stated, for its first part: whatever the order of move_to,
\* write_str and successful set_video_mode calls, every cell the console
\* writes lies inside the MAX_TEXT_ROWS x MAX_TEXT_COLS grid.
C35_WritesInsideGrid == DOMAIN GLYPH_ATTR_ARRAY \subseteq GridCells

\* ------------------------------------------------------------------------
\* The cells the Render Loop reads
\* ------------------------------------------------------------------------

\* The highest index render_scanline_text reads: the last column of the
\* row that starts at text_row * num_cols.
LastCellRead == (TextRow(rl.line, rl.format) * rl.cols) + (rl.cols - 1)

\* C36: NUM_TEXT_COLS and NUM_TEXT_ROWS never exceed MAX_TEXT_COLS and
\* MAX_TEXT_ROWS, and every cell the Render Loop reads has an index below
\* MAX_TEXT_COLS * MAX_TEXT_ROWS, also with set_video_mode running on core
\* 0 during the render.
C36_RenderReadsInsideGrid ==
    /\ NUM_TEXT_COLS <= MAX_TEXT_COLS
    /\ NUM_TEXT_ROWS <= MAX_TEXT_ROWS
    /\ rl.pc = "draw" =>
           /\ rl.cols <= MAX_TEXT_COLS
           /\ rl.rows <= MAX_TEXT_ROWS
           /\ LastCellRead \in GridCells

\* render_scanline is about to draw with a row count that is not the one
\* of the format it loaded: set_video_mode ran between its loads.
C36_Witness ==
    /\ rl.pc = "draw"
    /\ rl.format = "Text8x16"
    /\ rl.rows = 60
    /\ svm.returned

\* ------------------------------------------------------------------------
\* video_is_valid_mode
\* ------------------------------------------------------------------------

\* mode == Mode::new(Timing::T640x480, Format::Text8x16)
video_is_valid_mode(m) == m = Mode("T640x480", "Text8x16", FALSE, FALSE)

\* C37 as stated: set_video_mode returns true for a mode exactly if
\* video_is_valid_mode returns true for it.
C37_ValidModeIffAccepted ==
    svm.returned => (svm.mode_ok <=> video_is_valid_mode(svm.arg))

\* ------------------------------------------------------------------------
\* init(): the order of the start-up events
\* ------------------------------------------------------------------------

\* The TX FIFO of a state machine built with Buffers::OnlyTx, in words.
TX_FIFO_WORDS == 8

\* Core 1 before multicore_launch_core1_with_stack has launched it.
RlOff == [RlAt("ODD") EXCEPT !.pc = "off"]

\* init() with both buffers marked rendering-done and the DMA channels
\* configured, about to write multi_chan_trigger: the DMA interrupt is
\* masked, TEXT_COLOUR_LOOKUP is blank, core 1 is held in the boot ROM.
InitBoot ==
    /\ VIDEO_MODE = BootMode
    /\ TIMING_BUFFER = make_640x480
    /\ NUM_TEXT_COLS = 80
    /\ NUM_TEXT_ROWS = 30
    /\ CURRENT_TIMING_LINE = 0
    /\ CURRENT_PLAYOUT_LINE = 0
    /\ ready_for_drawing = [b \in Buffers |-> FALSE]
    /\ line_number = [b \in Buffers |-> 0]
    /\ pixels = [b \in Buffers |-> Garbage]
    /\ CLASHED_COUNT = 0
    /\ ints0 = {}
    /\ timing_read_addr = "visible_line"
    /\ pixel_read_addr = "EVEN"
    /\ dma_busy = {}
    /\ int_enabled = FALSE
    /\ event = FALSE
    /\ rl = RlOff
    /\ pc0 = "init_trigger"
    /\ svm = [arg |-> BootMode, mode_ok |-> FALSE, returned |-> FALSE, entry |-> << >>,
              prev |-> NoCall, int_entry |-> TRUE]
    /\ api = [arg |-> BootMode, ret |-> "none"]
    /\ wfl = [desired |-> 0, irqs |-> 0]
    /\ queued_was_ready = FALSE
    /\ pixel_irqs = 0
    /\ console = TextConsole_new
    /\ GLYPH_ATTR_ARRAY = EmptyGrid
    /\ con_op = NoOp
    /\ pixel_pairs = [b \in Buffers |-> BlankPixels]
    /\ TEXT_COLOUR_LOOKUP = TextColourLookup_blank
    /\ looked_up = [NoLookup EXCEPT !.written = 0]

\* dma.multi_chan_trigger.write(...)
InitTriggerDma ==
    /\ pc0 = "init_trigger"
    /\ dma_busy' = {TIMING_DMA_CHAN, PIXEL_DMA_CHAN}
    /\ pc0' = "init_hand_off"
    /\ UNCHANGED << textVars, modeVars, lineVars, bufVars, CLASHED_COUNT, ints0,
                    timing_read_addr, pixel_read_addr, int_enabled, event, rl, svm, api, wfl,
                    histVars >>

\* DMA_PERIPH = Some(dma)
InitHandOff ==
    /\ pc0 = "init_hand_off"
    /\ pc0' = "init_unmask"
    /\ UNCHANGED << textVars, modeVars, lineVars, bufVars, CLASHED_COUNT, dmaVars, int_enabled,
                    event, rl, svm, api, wfl, histVars >>

\* cortex_m::interrupt::enable(); NVIC::unpend; NVIC::unmask(DMA_IRQ_0)
InitUnmask ==
    /\ pc0 = "init_unmask"
    /\ int_enabled' = TRUE
    /\ pc0' = "init_lookup"
    /\ UNCHANGED << textVars, modeVars, lineVars, bufVars, CLASHED_COUNT, dmaVars, event, rl,
                    svm, api, wfl, histVars >>

\* TEXT_COLOUR_LOOKUP.init(&VIDEO_PALETTE)
InitLookup ==
    /\ pc0 = "init_lookup"
    /\ LET filled == TextColourLookup_init(TEXT_COLOUR_LOOKUP, VIDEO_PALETTE)
       IN  /\ TEXT_COLOUR_LOOKUP' = filled.entries
           /\ looked_up' = [looked_up EXCEPT !.written = filled.written]
    /\ pc0' = "init_launch"
    /\ UNCHANGED << modeVars, lineVars, bufVars, CLASHED_COUNT, dmaVars, int_enabled, event,
                    rl, svm, api, wfl, histVars, console, GLYPH_ATTR_ARRAY, con_op,
                    pixel_pairs >>

\* multicore_launch_core1_with_stack, up to the end of the launch sequence:
\* core 1 enters core1_main.
InitLaunch ==
    /\ pc0 = "init_launch"
    /\ rl' = [rl EXCEPT !.pc = "start"]
    /\ pc0' = "init_wait"
    /\ UNCHANGED << textVars, modeVars, lineVars, bufVars, CLASHED_COUNT, dmaVars, int_enabled,
                    event, svm, api, wfl, histVars >>

\* core1_main: CORE1_START_FLAG.store(true), then the loop.
Core1Start ==
    /\ rl.pc = "start"
    /\ rl' = RlAt("ODD")
    /\ UNCHANGED << textVars, modeVars, lineVars, bufVars, CLASHED_COUNT, dmaVars, int_enabled,
                    event, core0Vars, histVars >>

\* CORE1_START_FLAG, read off core 1's position.
CORE1_START_FLAG == rl.pc \notin {"off", "start"}

\* Mutant: multicore_launch_core1_with_stack does not wait for the flag.
InitWaitCore1_NoWait ==
    /\ pc0 = "init_wait"
    /\ pc0' = "init_start_sm"
    /\ UNCHANGED << textVars, modeVars, lineVars, bufVars, CLASHED_COUNT, dmaVars, int_enabled,
                    event, rl, svm, api, wfl, histVars >>

\* while !CORE1_START_FLAG.load(Ordering::Relaxed) { nop }
InitWaitCore1 ==
    /\ pc0 = "init_wait"
    /\ CORE1_START_FLAG
    /\ pc0' = "init_start_sm"
    /\ UNCHANGED << textVars, modeVars, lineVars, bufVars, CLASHED_COUNT, dmaVars, int_enabled,
                    event, rl, svm, api, wfl, histVars >>

\* timing_sm.start(); pixel_sm.start(); init returns.
InitStartSm ==
    /\ pc0 = "init_start_sm"
    /\ pc0' = "idle"
    /\ UNCHANGED << textVars, modeVars, lineVars, bufVars, CLASHED_COUNT, dmaVars, int_enabled,
                    event, rl, svm, api, wfl, histVars >>

InitStep ==
    \/ InitTriggerDma
    \/ InitHandOff
    \/ InitUnmask
    \/ InitLookup
    \/ InitLaunch
    \/ InitWaitCore1
    \/ InitStartSm

\* Where init() is, read off core 0's position.
DmaPeriphSet == pc0 \notin {"init_trigger", "init_hand_off"}

SmStarted == pc0 = "idle"

\* A DMA channel fills the TX FIFO of a state machine that has not been
\* started and then stalls: a transfer completes before the start only if
\* its words still fit. The timing transfers are four words long, a pixel
\* transfer MAX_NUM_PIXEL_PAIRS_PER_LINE + 1.
BootTimingDmaComplete ==
    /\ SmStarted \/ (CURRENT_TIMING_LINE + 1) * 4 <= TX_FIFO_WORDS
    /\ TimingDmaComplete

BootPixelDmaComplete ==
    /\ SmStarted \/ MAX_NUM_PIXEL_PAIRS_PER_LINE + 1 <= TX_FIFO_WORDS
    /\ PixelDmaComplete

\* The frame is followed for MaxRenderLine lines after the start.
BootIrq ==
    /\ CURRENT_PLAYOUT_LINE < MaxRenderLine
    /\ CURRENT_TIMING_LINE < MaxRenderLine
    /\ Irq

NextBoot ==
    \/ InitStep
    \/ Core1Start
    \/ BootTimingDmaComplete
    \/ BootPixelDmaComplete
    \/ BootIrq
    \/ RenderStep

SpecBoot == InitBoot /\ [][NextBoot]_vars

\* TextColourLookup::init has filled every entry.
LookupFilled == looked_up.written = 512

\* C38: the DMA interrupt is unmasked only with DMA_PERIPH set, core 1 is
\* launched only with the colour look-up table filled, the state machines
\* are started only with CORE1_START_FLAG set; so irq() is entered only with
\* a DMA handle, render_scanline draws only with a filled table, and a pixel
\* interrupt is raised only with the Render Loop running.
C38_StartUpOrder ==
    /\ int_enabled => DmaPeriphSet
    /\ rl.pc # "off" => LookupFilled
    /\ SmStarted => CORE1_START_FLAG
    /\ (ints0 # {} /\ int_enabled) => DmaPeriphSet
    /\ rl.pc = "draw" => LookupFilled
    /\ (PIXEL_DMA_CHAN \in ints0 \/ pixel_irqs > 0) => CORE1_START_FLAG

\* init() has returned, irq() served a timing interrupt while init() was
\* still running, and the first pixel interrupt has been served.
C38_Witness ==
    /\ SmStarted
    /\ CORE1_START_FLAG
    /\ LookupFilled
    /\ pixel_irqs = 1
    /\ CURRENT_TIMING_LINE = 2
    /\ CURRENT_PLAYOUT_LINE = 1

\* ------------------------------------------------------------------------
\* set_video_mode called inside a critical section
\* ------------------------------------------------------------------------

\* The caller's cortex_m::interrupt::disable(), as main() does on entry.
CallerDisable ==
    /\ pc0 = "idle"
    /\ int_enabled
    /\ int_enabled' = FALSE
    /\ UNCHANGED << textVars, modeVars, lineVars, bufVars, CLASHED_COUNT, dmaVars, event, rl,
                    core0Vars, histVars >>

\* The timing side with set_video_mode called at any point of the frame,
\* inside or outside a critical section of its caller.
NextCritical ==
    \/ TimingDmaComplete
    \/ Irq
    \/ CallerDisable
    \/ \E m \in ModeInputs : SvmBegin(m)
    \/ SvmStep

SpecCritical == Init /\ [][NextCritical]_vars

\* This step is the return of set_video_mode.
SvmReturns == pc0 = "svm_enable" /\ pc0' = "idle"

\* C39: set_video_mode returns with interrupts enabled exactly if they were
\* enabled when it was called.
C39_InterruptStateKept == [][ SvmReturns => (int_enabled' <=> svm.int_entry) ]_vars

\* ------------------------------------------------------------------------
\* The fields of a timing word
\* ------------------------------------------------------------------------

\* (front porch, sync pulse, back porch, visible) in pixels, as both
\* make_640x400 and make_640x480 pass them.
HorizontalTimings == << 16, 96, 48, 640 >>

\* The period arguments the three constructors pass to make_timing.
PeriodArguments ==
    { HorizontalTimings[1] * 10, HorizontalTimings[2] * 10, HorizontalTimings[3] * 10,
      (HorizontalTimings[3] * 10) - 5, HorizontalTimings[4] * 10,
      (HorizontalTimings[4] * 10) + 5 }

\* The twelve words of a TimingBuffer.
TimingWords(tb) ==
    { tb.visible_line[i] : i \in 1..4 } \cup { tb.vblank_porch_buffer[i] : i \in 1..4 }
        \cup { tb.vblank_sync_buffer[i] : i \in 1..4 }

\* What the timing program takes out of a word: out pins, 2 / out x, 14 /
\* out exec, 16.
PinsField(word) == word[2] % 4

XField(word) == word[2] \div 4

ExecField(word) == word[1]

\* C40: every period make_timing is given is at least 6 with period - 6
\* below 2^14, and every word of the TimingBuffer in use holds the H-sync
\* bit in bit 0, the V-sync bit in bit 1, period - 6 in bits 2..15 and the
\* PIO instruction in bits 16..31: it is the word make_timing builds from
\* the four fields the timing program reads back.
C40_TimingWordFields ==
    /\ \A period \in PeriodArguments : period >= 6 /\ period - 6 < 2 ^ 14
    /\ \A word \in TimingWords(TIMING_BUFFER) :
          /\ ExecField(word) \in {49152, 41026}
          /\ XField(word) + 6 \in PeriodArguments
          /\ PinsField(word) = HSyncBit(word) + 2 * VSyncBit(word)
          /\ word = make_timing(XField(word) + 6, HSyncBit(word) = 1, VSyncBit(word) = 1,
                                ExecField(word) = 49152)

\* C40 witness: 640x400 is set; the last word of the visible line holds
\* H-sync high, V-sync low, 6405 - 6 and the IRQ instruction.
C40_Witness ==
    /\ svm.returned
    /\ VIDEO_MODE.timing = "T640x400"
    /\ TIMING_BUFFER.visible_line[4] = << 49152, ((6405 - 6) * 4) + 1 >>
    /\ XField(TIMING_BUFFER.visible_line[4]) = 6399

====
